---- MODULE Spec2Model ----
(***************************************************************************)
(* Model of the AWS Console Link Sharer extension: the URL processor       *)
(* (src/url-processor.ts), the popup (src/popup/popup.ts) and the          *)
(* background worker (src/background.ts).                                  *)
(*                                                                         *)
(* Strings are TLA+ strings, read character by character with SubSeq.      *)
(* JavaScript values are records [t |-> type tag, v |-> text]; objects are *)
(* records with t = "obj" and their own fields.                            *)
(* The WHATWG URL parser and serializer behind `new URL(...)`,             *)
(* `URL.hostname`, `URL.hash` and `URL.toString()` are modelled for URLs   *)
(* written over the alphabet of the model's inputs: letters, digits,       *)
(* space and - . : / ? # & = % + _ (no credentials, no backslashes, no     *)
(* dot segments, no IPv6 literals, no non-ASCII).                          *)
(*                                                                         *)
(* The string functions are TLA+ functions, f[s \in STRING], so that an    *)
(* argument is evaluated once, and the recursive ones work by halves so    *)
(* that the evaluation stays shallow on URLs of a hundred characters.      *)
(***************************************************************************)
EXTENDS Integers, Sequences, FiniteSets, TLC

(***************************************************************************)
(* Characters and strings                                                  *)
(***************************************************************************)
UpperChars == "ABCDEFGHIJKLMNOPQRSTUVWXYZ"
LowerChars == "abcdefghijklmnopqrstuvwxyz"
DigitChars == "0123456789"

CharAt(s, i) == SubSeq(s, i, i)

CharsOf(s) == {CharAt(s, i) : i \in 1..Len(s)}

UpperSet == CharsOf(UpperChars)
LowerSet == CharsOf(LowerChars)
DigitSet == CharsOf(DigitChars)
AlphaSet == UpperSet \cup LowerSet
AlnumSet == AlphaSet \cup DigitSet

IndexIn(c, s) == CHOOSE i \in 1..Len(s) : CharAt(s, i) = c

ToLowerChar(c) == IF c \in UpperSet THEN CharAt(LowerChars, IndexIn(c, UpperChars)) ELSE c

\* String.prototype.toLowerCase
ToLowerCase[s \in STRING] ==
    IF Len(s) = 0 THEN ""
    ELSE IF Len(s) = 1 THEN ToLowerChar(s)
    ELSE ToLowerCase[SubSeq(s, 1, Len(s) \div 2)] \o ToLowerCase[SubSeq(s, Len(s) \div 2 + 1, Len(s))]

\* Every character of s is in cs.
AllIn[s \in STRING, cs \in SUBSET STRING] == \A i \in 1..Len(s) : CharAt(s, i) \in cs

\* Index of the first character of s in positions lo..hi that is in cs (in:
\* TRUE) or not in cs (in: FALSE); hi + 1 when there is none.
FirstInRange[s \in STRING, cs \in SUBSET STRING, in \in BOOLEAN, lo \in Int, hi \in Int] ==
    IF lo > hi THEN hi + 1
    ELSE IF lo = hi THEN (IF (CharAt(s, lo) \in cs) = in THEN lo ELSE hi + 1)
    ELSE IF FirstInRange[s, cs, in, lo, (lo + hi) \div 2] <= (lo + hi) \div 2
    THEN FirstInRange[s, cs, in, lo, (lo + hi) \div 2]
    ELSE FirstInRange[s, cs, in, (lo + hi) \div 2 + 1, hi]

\* Index of the first character of s at or after position from that is in cs,
\* Len(s) + 1 when there is none.
FirstIn[s \in STRING, cs \in SUBSET STRING, from \in Int] == FirstInRange[s, cs, TRUE, from, Len(s)]

\* Length of the run of characters of cs that starts at position from of s.
RunLength[s \in STRING, cs \in SUBSET STRING, from \in Int] ==
    FirstInRange[s, cs, FALSE, from, Len(s)] - from

From(s, i) == SubSeq(s, i, Len(s))

\* String.prototype.includes
Includes[s \in STRING, sub \in STRING] ==
    \E i \in 1..(Len(s) - Len(sub) + 1) : SubSeq(s, i, i + Len(sub) - 1) = sub

StartsWith(s, pre) == Len(s) >= Len(pre) /\ SubSeq(s, 1, Len(pre)) = pre

\* The white space String.prototype.trim removes (of the alphabet).
WhiteSpace == {" ", "\t", "\n"}

TrimStart[s \in STRING] ==
    IF s # "" /\ CharAt(s, 1) \in WhiteSpace THEN TrimStart[Tail(s)] ELSE s

TrimEnd[s \in STRING] ==
    IF s # "" /\ CharAt(s, Len(s)) \in WhiteSpace THEN TrimEnd[SubSeq(s, 1, Len(s) - 1)] ELSE s

\* String.prototype.trim
Trim[s \in STRING] == TrimEnd[TrimStart[s]]

(***************************************************************************)
(* JavaScript values                                                       *)
(***************************************************************************)
Str(s) == [t |-> "str", v |-> s]
Num(s) == [t |-> "num", v |-> s]
Bool(b) == [t |-> "bool", v |-> IF b THEN "true" ELSE "false"]
Null == [t |-> "null", v |-> ""]
Undefined == [t |-> "undef", v |-> ""]

\* An object, from the record of its own fields.
Obj(fields) == [t |-> "obj"] @@ fields

\* An object used as a string-keyed map (AccountRoleMap), from the function m.
MapOf(m) == [t |-> "map", m |-> m]
EmptyMap == MapOf(<<>>)

IsStr(x) == x.t = "str"

\* ToBoolean
Truthy(x) ==
    CASE x.t \in {"obj", "map"} -> TRUE
      [] x.t = "bool" -> x.v = "true"
      [] x.t = "str" -> x.v # ""
      [] x.t = "num" -> x.v # "0"
      [] OTHER -> FALSE

\* ToString
JSToString(x) ==
    CASE x.t \in {"obj", "map"} -> "[object Object]"
      [] x.t = "null" -> "null"
      [] x.t = "undef" -> "undefined"
      [] OTHER -> x.v

\* a || b
OrElse(a, b) == IF Truthy(a) THEN a ELSE b

(***************************************************************************)
(* WHATWG URL: parsing, hostname getter and setter, hash setter, toString  *)
(***************************************************************************)
SpecialSchemes == {"http", "https", "ws", "wss", "ftp"}

DefaultPort(scheme) ==
    CASE scheme = "http" -> "80"
      [] scheme = "https" -> "443"
      [] scheme = "ws" -> "80"
      [] scheme = "wss" -> "443"
      [] scheme = "ftp" -> "21"
      [] OTHER -> ""

\* Forbidden host code points of the model's alphabet, plus "%" which is
\* forbidden in a domain.
ForbiddenHostChars == {" ", "#", "/", ":", "?"}
ForbiddenDomainChars == ForbiddenHostChars \cup {"%"}

\* A URL record, and the value that stands for `new URL` throwing.
ParseFailure == [ok |-> FALSE]

URLRecord ==
    [ok : {TRUE}, scheme : STRING, hasHost : BOOLEAN, host : STRING, port : STRING,
     path : STRING, hasQuery : BOOLEAN, query : STRING, hasFragment : BOOLEAN,
     fragment : STRING]

\* The part of a host after its last dot (the whole host when it has none),
\* ignoring one trailing dot.
LastLabel[h \in STRING] ==
    IF FirstIn[h, {"."}, 1] >= Len(h)
    THEN SubSeq(h, 1, FirstIn[h, {"."}, 1] - 1)
    ELSE LastLabel[From(h, FirstIn[h, {"."}, 1] + 1)]

\* The domain d, already lowercased, as a host: it must hold no forbidden
\* domain code point, and must not end in a number unless it is all numbers
\* (it is then parsed as an IPv4 address, which no host with a letter in it is).
ParseDomain[d \in STRING] ==
    IF d = "" \/ \E i \in 1..Len(d) : CharAt(d, i) \in ForbiddenDomainChars
    THEN ParseFailure
    ELSE IF LastLabel[d] # "" /\ AllIn[LastLabel[d], DigitSet] /\ ~AllIn[d, DigitSet \cup {"."}]
    THEN ParseFailure
    ELSE [ok |-> TRUE, host |-> d]

\* Host parser.  special: a domain, lowercased (domain to ASCII).  Not special:
\* an opaque host, kept as written.
ParseHost[h \in STRING, special \in BOOLEAN] ==
    IF special THEN ParseDomain[ToLowerCase[h]]
    ELSE IF \E i \in 1..Len(h) : CharAt(h, i) \in ForbiddenHostChars
    THEN ParseFailure
    ELSE [ok |-> TRUE, host |-> h]

\* Percent-encoding of the one character of the alphabet that the path, query
\* and fragment percent-encode sets hold: the space.
EncodeSpaces[s \in STRING] ==
    IF Len(s) = 0 THEN ""
    ELSE IF Len(s) = 1 THEN (IF s = " " THEN "%20" ELSE s)
    ELSE EncodeSpaces[SubSeq(s, 1, Len(s) \div 2)] \o EncodeSpaces[SubSeq(s, Len(s) \div 2 + 1, Len(s))]

\* Leading "/" characters of s removed (special authority ignore slashes state).
SkipSlashes[s \in STRING] == IF s # "" /\ Head(s) = "/" THEN SkipSlashes[Tail(s)] ELSE s

\* Path, query and fragment of the remainder r of the input after the
\* authority; q is the position of the first "?" or "#", f of the first "#".
ParseTailAt[r \in STRING, special \in BOOLEAN, q \in Int, f \in Int] ==
    [path |-> IF special /\ q = 1 THEN "/" ELSE EncodeSpaces[SubSeq(r, 1, q - 1)],
     hasQuery |-> q < f,
     query |-> IF q < f THEN EncodeSpaces[SubSeq(r, q + 1, f - 1)] ELSE "",
     hasFragment |-> f <= Len(r),
     fragment |-> IF f <= Len(r) THEN EncodeSpaces[From(r, f + 1)] ELSE ""]

ParseTail[r \in STRING, special \in BOOLEAN] ==
    ParseTailAt[r, special, FirstIn[r, {"?", "#"}, 1], FirstIn[r, {"#"}, 1]]

\* A URL from its parsed parts: h the host parser's result, rawPort the text
\* after the authority's ":", t the parsed path, query and fragment.
AssembleURL(scheme, special, rawHost, h, rawPort, t) ==
    IF special /\ rawHost = "" THEN ParseFailure
    ELSE IF ~h.ok THEN ParseFailure
    ELSE IF ~AllIn[rawPort, DigitSet] \/ Len(rawPort) > 5 THEN ParseFailure
    ELSE [ok |-> TRUE, scheme |-> scheme, hasHost |-> TRUE, host |-> h.host,
          port |-> IF rawPort = DefaultPort(scheme) THEN "" ELSE rawPort,
          path |-> t.path, hasQuery |-> t.hasQuery, query |-> t.query,
          hasFragment |-> t.hasFragment, fragment |-> t.fragment]

\* The authority auth (host and optional port, the ":" at position c) followed
\* by the path, query and fragment in tail.
ParseHostPort[scheme \in STRING, special \in BOOLEAN, auth \in STRING, c \in Int, tail \in STRING] ==
    AssembleURL(scheme, special, SubSeq(auth, 1, c - 1),
                ParseHost[SubSeq(auth, 1, c - 1), special], From(auth, c + 1),
                ParseTail[tail, special])

\* a is the input after the scheme and its slashes; e the end of the authority.
ParseAuthorityAt[scheme \in STRING, special \in BOOLEAN, a \in STRING, e \in Int] ==
    ParseHostPort[scheme, special, SubSeq(a, 1, e - 1),
                  FirstIn[SubSeq(a, 1, e - 1), {":"}, 1], From(a, e)]

ParseAuthority[scheme \in STRING, special \in BOOLEAN, a \in STRING] ==
    ParseAuthorityAt[scheme, special, a, FirstIn[a, {"/", "?", "#"}, 1]]

\* A URL with no authority: the path is what follows the scheme.
ParseNoAuthority[scheme \in STRING, rest \in STRING] ==
    [ok |-> TRUE, scheme |-> scheme, hasHost |-> FALSE, host |-> "", port |-> ""]
    @@ ParseTail[rest, FALSE]

\* The input s, trimmed, with its first ":" at position c.
ParseScheme[s \in STRING, c \in Int] ==
    IF c > Len(s) \/ c = 1 THEN ParseFailure
    ELSE IF Head(s) \notin AlphaSet \/ ~AllIn[SubSeq(s, 1, c - 1), AlnumSet \cup {"+", "-", "."}]
    THEN ParseFailure
    ELSE IF ToLowerCase[SubSeq(s, 1, c - 1)] \in SpecialSchemes
    THEN ParseAuthority[ToLowerCase[SubSeq(s, 1, c - 1)], TRUE, SkipSlashes[From(s, c + 1)]]
    ELSE IF StartsWith(From(s, c + 1), "//")
    THEN ParseAuthority[ToLowerCase[SubSeq(s, 1, c - 1)], FALSE, From(s, c + 3)]
    ELSE ParseNoAuthority[ToLowerCase[SubSeq(s, 1, c - 1)], From(s, c + 1)]

ParseTrimmed[s \in STRING] == ParseScheme[s, FirstIn[s, {":"}, 1]]

\* new URL(input) without a base: ParseFailure where the constructor throws.
\* Leading and trailing spaces are stripped first.
ParseURL[input \in STRING] == ParseTrimmed[Trim[input]]

\* URL.hostname getter
Hostname(u) == u.host

\* URL.protocol getter
Protocol(u) == u.scheme \o ":"

\* The hostname setter once the new value is parsed: h is the host parser's
\* result for the value up to position e, its first "/", "?", "#" or ":".
SetParsedHost(u, value, e, h) ==
    IF ~u.hasHost THEN u
    ELSE IF e <= Len(value) /\ CharAt(value, e) = ":" THEN u
    ELSE IF u.scheme \in SpecialSchemes /\ e = 1 THEN u
    ELSE IF ~h.ok THEN u
    ELSE [u EXCEPT !.host = h.host]

SetHostnameAt[u \in URLRecord, value \in STRING, e \in Int] ==
    SetParsedHost(u, value, e, ParseHost[SubSeq(value, 1, e - 1), u.scheme \in SpecialSchemes])

\* URL.hostname setter: a URL without a host is left alone, and so is the URL
\* when the new value does not parse as a host; the value is read up to the
\* first "/", "?" or "#", and a ":" in it makes the setter give up.
SetHostname[u \in URLRecord, value \in STRING] ==
    SetHostnameAt[u, value, FirstIn[value, {"/", "?", "#", ":"}, 1]]

\* URL.hash setter: the empty string removes the fragment, otherwise one leading
\* "#" is dropped and the rest is percent-encoded with the fragment set.
SetHash[u \in URLRecord, value \in STRING] ==
    IF value = "" THEN [u EXCEPT !.hasFragment = FALSE, !.fragment = ""]
    ELSE [u EXCEPT !.hasFragment = TRUE,
                   !.fragment = EncodeSpaces[IF Head(value) = "#" THEN Tail(value) ELSE value]]

\* URL.toString(): the URL serializer.
Serialize[u \in URLRecord] ==
    u.scheme \o ":"
    \o (IF u.hasHost THEN "//" \o u.host \o (IF u.port = "" THEN "" ELSE ":" \o u.port) ELSE "")
    \o u.path
    \o (IF u.hasQuery THEN "?" \o u.query ELSE "")
    \o (IF u.hasFragment THEN "#" \o u.fragment ELSE "")

(***************************************************************************)
(* src/url-processor.ts                                                    *)
(***************************************************************************)
ConsoleDomain == "console.aws.amazon.com"

AccountIdLength == 12

\* The match of /^(\d{12})-[a-z0-9]+\.(.+)$/ on hostname, run being the length
\* of the run of [a-z0-9] after the hyphen: matched, and match[2].  The suffix
\* cannot hold a dot, so the only candidate match takes the whole run.
MatchAt[hostname \in STRING, run \in Int] ==
    IF /\ Len(hostname) > AccountIdLength
       /\ AllIn[SubSeq(hostname, 1, AccountIdLength), DigitSet]
       /\ CharAt(hostname, AccountIdLength + 1) = "-"
       /\ run >= 1
       /\ AccountIdLength + 2 + run < Len(hostname)
       /\ CharAt(hostname, AccountIdLength + 2 + run) = "."
    THEN [matched |-> TRUE, rest |-> From(hostname, AccountIdLength + 3 + run)]
    ELSE [matched |-> FALSE, rest |-> ""]

\* hostname.match(/^(\d{12})-[a-z0-9]+\.(.+)$/)
MatchMultiAccount[hostname \in STRING] ==
    MatchAt[hostname, RunLength[hostname, LowerSet \cup DigitSet, AccountIdLength + 2]]

TestAt[hostname \in STRING, run \in Int] ==
    /\ Len(hostname) > AccountIdLength
    /\ AllIn[SubSeq(hostname, 1, AccountIdLength), DigitSet]
    /\ CharAt(hostname, AccountIdLength + 1) = "-"
    /\ run >= 1
    /\ AccountIdLength + 2 + run <= Len(hostname)
    /\ CharAt(hostname, AccountIdLength + 2 + run) = "."

\* /^\d{12}-[a-z0-9]+\./.test(hostname)
TestMultiAccount[hostname \in STRING] ==
    TestAt[hostname, RunLength[hostname, LowerSet \cup DigitSet, AccountIdLength + 2]]

CleanFailure(msg) == [success |-> FALSE, error |-> msg, type |-> "clean"]

\* A variant of the hostname rewrite that also resets the path: C2 tells it
\* from the rewrite of the code.
StripPrefixAndPath(parsedUrl, match) ==
    IF match.matched THEN [SetHostname[parsedUrl, match.rest] EXCEPT !.path = "/"] ELSE parsedUrl

\* The hostname rewrite of cleanUrl, given the match on the parsed hostname.
StripPrefix(parsedUrl, match) ==
    IF match.matched THEN SetHostname[parsedUrl, match.rest] ELSE parsedUrl

\* cleanUrl once `new URL(url)` has returned parsedUrl.
CleanParsed[parsedUrl \in URLRecord] ==
    IF ~Includes[Hostname(parsedUrl), ConsoleDomain]
    THEN CleanFailure("Not an AWS Console URL")
    ELSE [success |-> TRUE,
          url |-> Serialize[StripPrefix(parsedUrl, MatchMultiAccount[Hostname(parsedUrl)])],
          type |-> "clean"]

\* A variant of cleanUrl that accepts https only: C10 tells it from the code.
cleanUrlHttpsOnly(url) ==
    IF ~Truthy(url) \/ ~IsStr(url) \/ Len(Trim[url.v]) = 0
    THEN CleanFailure("Invalid URL provided")
    ELSE IF ~ParseURL[url.v].ok
    THEN CleanFailure("Invalid URL format")
    ELSE IF Protocol(ParseURL[url.v]) # "https:"
    THEN CleanFailure("Not an AWS Console URL")
    ELSE CleanParsed[ParseURL[url.v]]

cleanUrl(url) ==
    IF ~Truthy(url) \/ ~IsStr(url) \/ Len(Trim[url.v]) = 0
    THEN CleanFailure("Invalid URL provided")
    ELSE IF ~ParseURL[url.v].ok
    THEN CleanFailure("Invalid URL format")
    ELSE CleanParsed[ParseURL[url.v]]

\* A variant of isMultiAccountUrl that asks for a console host as well: C17
\* tells it from the code.
isMultiAccountConsoleUrl(url) ==
    /\ ParseURL[JSToString(url)].ok
    /\ TestMultiAccount[Hostname(ParseURL[JSToString(url)])]
    /\ Includes[Hostname(ParseURL[JSToString(url)]), ConsoleDomain]

isMultiAccountUrl(url) ==
    /\ ParseURL[JSToString(url)].ok
    /\ TestMultiAccount[Hostname(ParseURL[JSToString(url)])]

\* validateAwsConsoleUrl once `new URL(url)` has returned parsedUrl.
ValidParsed[parsedUrl \in URLRecord] ==
    Protocol(parsedUrl) = "https:" /\ Includes[Hostname(parsedUrl), ConsoleDomain]

\* A variant of validateAwsConsoleUrl that accepts every scheme: C18 tells it
\* from the code.
validateAwsConsoleUrlAnyScheme(url) ==
    /\ Truthy(url)
    /\ ParseURL[JSToString(url)].ok
    /\ Includes[Hostname(ParseURL[JSToString(url)]), ConsoleDomain]

validateAwsConsoleUrl(url) ==
    /\ Truthy(url)
    /\ ParseURL[JSToString(url)].ok
    /\ ValidParsed[ParseURL[JSToString(url)]]

\* The application/x-www-form-urlencoded byte serializer, for one character:
\* letters, digits and * - . _ stay, the space becomes "+", every other
\* character of the alphabet becomes its percent code.
FormEncodeChar(c) ==
    CASE c \in AlnumSet \cup {"*", "-", ".", "_"} -> c
      [] c = " " -> "+"
      [] c = "#" -> "%23"
      [] c = "%" -> "%25"
      [] c = "&" -> "%26"
      [] c = "+" -> "%2B"
      [] c = "," -> "%2C"
      [] c = "/" -> "%2F"
      [] c = ":" -> "%3A"
      [] c = "=" -> "%3D"
      [] c = "?" -> "%3F"
      [] c = "@" -> "%40"
      [] c = "[" -> "%5B"
      [] c = "]" -> "%5D"

FormEncode[s \in STRING] ==
    IF Len(s) = 0 THEN ""
    ELSE IF Len(s) = 1 THEN FormEncodeChar(s)
    ELSE FormEncode[SubSeq(s, 1, Len(s) \div 2)] \o FormEncode[SubSeq(s, Len(s) \div 2 + 1, Len(s))]

\* new URLSearchParams({account_id, role_name, destination}).toString()
SearchParams(accountId, roleName, destination) ==
    "account_id=" \o FormEncode[JSToString(accountId)]
    \o "&role_name=" \o FormEncode[JSToString(roleName)]
    \o "&destination=" \o FormEncode[destination]

\* A variant of the failure result that carries an empty url: C13 tells it
\* from the code.
DeepLinkFailureWithUrl(msg) == [success |-> FALSE, error |-> msg, url |-> "", type |-> "deeplink"]

DeepLinkFailure(msg) == [success |-> FALSE, error |-> msg, type |-> "deeplink"]

\* config?.ssoSubdomain: undefined for a null or undefined config.
SsoSubdomainOf(config) == IF config.t = "obj" THEN config.ssoSubdomain ELSE Undefined

\* sessionInfo?.field: undefined for a null or undefined sessionInfo.
SessionField(sessionInfo, field) == IF sessionInfo.t = "obj" THEN sessionInfo[field] ELSE Undefined

\* The deep link for the parsed base URL and the serialized parameters:
\* deepLinkUrl.hash = `/console?${params}`; deepLinkUrl.toString().
DeepLinkUrl[base \in STRING, params \in STRING] ==
    IF ~ParseURL[base].ok
    THEN DeepLinkFailure("Failed to generate deep link")
    ELSE [success |-> TRUE,
          url |-> Serialize[SetHash[ParseURL[base], "/console?" \o params]],
          type |-> "deeplink"]

\* A variant that embeds currentUrl as it came, whatever cleanUrl made of it:
\* C14 tells it from the code.
AssembleDeepLinkUncleaned(sessionInfo, subdomain, cleanedUrlResult) ==
    DeepLinkUrl["https://" \o Trim[subdomain] \o ".awsapps.com/start/",
                SearchParams(sessionInfo.accountId, sessionInfo.roleName,
                             JSToString(sessionInfo.currentUrl))]

\* generateDeepLink once the checks on config and sessionInfo have passed and
\* cleanUrl has returned cleanedUrlResult.
AssembleDeepLink(sessionInfo, subdomain, cleanedUrlResult) ==
    IF ~cleanedUrlResult.success
    THEN DeepLinkFailure("Failed to clean destination URL")
    ELSE DeepLinkUrl["https://" \o Trim[subdomain] \o ".awsapps.com/start/",
                     SearchParams(sessionInfo.accountId, sessionInfo.roleName,
                                  cleanedUrlResult.url)]

\* A variant of generateDeepLink that checks the account id's format: C20
\* tells it from the code.
generateDeepLinkValidating(sessionInfo, config) ==
    IF \/ SsoSubdomainOf(config).t \in {"null", "undef"}
       \/ (IsStr(SsoSubdomainOf(config)) /\ Trim[SsoSubdomainOf(config).v] = "")
    THEN DeepLinkFailure("AWS SSO subdomain not configured")
    ELSE IF ~IsStr(SsoSubdomainOf(config))
    THEN DeepLinkFailure("Failed to generate deep link")
    ELSE IF \/ ~Truthy(SessionField(sessionInfo, "accountId"))
            \/ ~Truthy(SessionField(sessionInfo, "roleName"))
            \/ ~Truthy(SessionField(sessionInfo, "currentUrl"))
            \/ Len(JSToString(sessionInfo.accountId)) < Len("123456")
    THEN DeepLinkFailure("Missing session information")
    ELSE AssembleDeepLink(sessionInfo, config.ssoSubdomain.v, cleanUrl(sessionInfo.currentUrl))

\* A variant of generateDeepLink that checks the session before the
\* subdomain: C9 tells it from the code.
generateDeepLinkSessionFirst(sessionInfo, config) ==
    IF \/ ~Truthy(SessionField(sessionInfo, "accountId"))
       \/ ~Truthy(SessionField(sessionInfo, "roleName"))
       \/ ~Truthy(SessionField(sessionInfo, "currentUrl"))
    THEN DeepLinkFailure("Missing session information")
    ELSE IF \/ SsoSubdomainOf(config).t \in {"null", "undef"}
            \/ (IsStr(SsoSubdomainOf(config)) /\ Trim[SsoSubdomainOf(config).v] = "")
    THEN DeepLinkFailure("AWS SSO subdomain not configured")
    ELSE IF ~IsStr(SsoSubdomainOf(config))
    THEN DeepLinkFailure("Failed to generate deep link")
    ELSE AssembleDeepLink(sessionInfo, config.ssoSubdomain.v, cleanUrl(sessionInfo.currentUrl))

generateDeepLink(sessionInfo, config) ==
    IF \/ SsoSubdomainOf(config).t \in {"null", "undef"}
       \/ (IsStr(SsoSubdomainOf(config)) /\ Trim[SsoSubdomainOf(config).v] = "")
    THEN DeepLinkFailure("AWS SSO subdomain not configured")
    ELSE IF ~IsStr(SsoSubdomainOf(config))
    THEN \* .trim is not a function: the TypeError lands in the catch
         DeepLinkFailure("Failed to generate deep link")
    ELSE IF \/ ~Truthy(SessionField(sessionInfo, "accountId"))
            \/ ~Truthy(SessionField(sessionInfo, "roleName"))
            \/ ~Truthy(SessionField(sessionInfo, "currentUrl"))
    THEN DeepLinkFailure("Missing session information")
    ELSE AssembleDeepLink(sessionInfo, config.ssoSubdomain.v, cleanUrl(sessionInfo.currentUrl))

\* A call that ends by throwing instead of returning.
Thrown(name) == [threw |-> name]

\* x.field: undefined when x is not an object or does not have the field.
Prop(x, field) == IF x.t = "obj" /\ field \in DOMAIN x THEN x[field] ELSE Undefined

\* /^\d{6,12}$/.test(s)
TestAccountIdFormat(s) == Len(s) >= 6 /\ Len(s) <= 12 /\ AllIn[s, DigitSet]

\* The errors validateSessionInfo pushes for the three fields, in order.
SessionErrors(accountId, roleName, currentUrl) ==
    (IF ~Truthy(accountId) \/ ~TestAccountIdFormat(JSToString(accountId))
     THEN <<"Invalid account ID">> ELSE <<>>)
    \o (IF ~Truthy(roleName) \/ Len(Trim[roleName.v]) = 0
        THEN <<"Invalid role name">> ELSE <<>>)
    \o (IF ~Truthy(currentUrl) \/ ~validateAwsConsoleUrl(currentUrl)
        THEN <<"Invalid current URL">> ELSE <<>>)

ValidationResult(errors) == [valid |-> Len(errors) = 0, errors |-> errors]

\* validateSessionInfo has no try/catch: roleName.trim() on a truthy value that
\* is not a string is a TypeError that leaves the function.
validateSessionInfo(sessionInfo) ==
    IF ~Truthy(sessionInfo)
    THEN [valid |-> FALSE, errors |-> <<"Session information is missing">>]
    ELSE IF Truthy(Prop(sessionInfo, "roleName")) /\ ~IsStr(Prop(sessionInfo, "roleName"))
    THEN Thrown("TypeError")
    ELSE ValidationResult(SessionErrors(Prop(sessionInfo, "accountId"),
                                        Prop(sessionInfo, "roleName"),
                                        Prop(sessionInfo, "currentUrl")))

validateExtensionConfig(config) ==
    IF ~Truthy(config)
    THEN [valid |-> FALSE, errors |-> <<"Configuration is missing">>]
    ELSE ValidationResult(
             IF \/ ~Truthy(Prop(config, "ssoSubdomain"))
                \/ ~IsStr(Prop(config, "ssoSubdomain"))
                \/ Len(Trim[Prop(config, "ssoSubdomain").v]) = 0
             THEN <<"AWS SSO subdomain is required">> ELSE <<>>)

(***************************************************************************)
(* src/popup/popup.ts: role resolution                                     *)
(***************************************************************************)
\* config.accountRoleMap[sessionInfo.accountId]: undefined for an absent key.
MappedRole(sessionInfo, config) ==
    IF JSToString(sessionInfo.accountId) \in DOMAIN config.accountRoleMap.m
    THEN config.accountRoleMap.m[JSToString(sessionInfo.accountId)]
    ELSE Undefined

\* A variant of resolveRoleName whose 'default' strategy returns
\* defaultRoleName even when it is empty: C8 tells it from the code.
resolveRoleNameNoFallback(sessionInfo, config) ==
    LET strategy == OrElse(config.roleSelectionStrategy, Str("current"))
        mappedRole == MappedRole(sessionInfo, config)
    IN CASE strategy = Str("current") -> sessionInfo.roleName
         [] strategy = Str("default") -> config.defaultRoleName
         [] strategy = Str("account-map") ->
                IF Truthy(mappedRole) THEN mappedRole
                ELSE OrElse(config.defaultRoleName, sessionInfo.roleName)
         [] OTHER -> sessionInfo.roleName

resolveRoleName(sessionInfo, config) ==
    LET strategy == OrElse(config.roleSelectionStrategy, Str("current"))
        mappedRole == MappedRole(sessionInfo, config)
    IN CASE strategy = Str("current") -> sessionInfo.roleName
         [] strategy = Str("default") -> OrElse(config.defaultRoleName, sessionInfo.roleName)
         [] strategy = Str("account-map") ->
                IF Truthy(mappedRole) THEN mappedRole
                ELSE OrElse(config.defaultRoleName, sessionInfo.roleName)
         [] OTHER -> sessionInfo.roleName

(***************************************************************************)
(* src/popup/popup.ts: initialization                                      *)
(***************************************************************************)
\* PopupManager.isAwsConsoleUrl
isAwsConsoleUrl(url) ==
    /\ ParseURL[JSToString(url)].ok
    /\ Includes[Hostname(ParseURL[JSToString(url)]), ConsoleDomain]

\* validateCurrentTab without the isAwsConsoleUrl check.
validateCurrentTabAnyUrl(tab) ==
    IF ~Truthy(tab) THEN "Unable to access current tab. Please try again."
    ELSE IF ~Truthy(tab.id) THEN "Invalid tab state. Please refresh the page and try again."
    ELSE IF ~Truthy(tab.url) THEN "Unable to access current page URL. Please check permissions."
    ELSE ""

\* PopupManager.validateCurrentTab: the error shown, "" when the tab is accepted.
validateCurrentTab(tab) ==
    IF ~Truthy(tab) THEN "Unable to access current tab. Please try again."
    ELSE IF ~Truthy(tab.id) THEN "Invalid tab state. Please refresh the page and try again."
    ELSE IF ~Truthy(tab.url) THEN "Unable to access current page URL. Please check permissions."
    ELSE IF ~isAwsConsoleUrl(tab.url)
    THEN "This extension only works on AWS Console pages. Please navigate to console.aws.amazon.com."
    ELSE ""

\* /^[a-zA-Z0-9][a-zA-Z0-9-]*[a-zA-Z0-9]$/.test(s)
TestSubdomainFormat(s) ==
    /\ Len(s) >= 2
    /\ CharAt(s, 1) \in AlnumSet
    /\ CharAt(s, Len(s)) \in AlnumSet
    /\ AllIn[s, AlnumSet \cup {"-"}]

MaxSubdomainLength == 63

\* The configuration loadConfiguration falls back to when storage fails.
FallbackConfig ==
    [t |-> "obj", ssoSubdomain |-> Str(""), defaultAction |-> Str("clean"),
     showNotifications |-> Bool(TRUE), autoClosePopup |-> Bool(TRUE),
     roleSelectionStrategy |-> Str("current"), defaultRoleName |-> Str(""),
     accountRoleMap |-> EmptyMap]

\* PopupManager.loadConfiguration on the stored items: the config it builds.
\* A rejected storage read is the stored value Null.
loadConfiguration(stored) ==
    IF stored.t # "obj" THEN FallbackConfig
    ELSE LET sub == IF IsStr(stored.ssoSubdomain) THEN stored.ssoSubdomain.v ELSE ""
             keep == \/ Trim[sub] = ""
                     \/ (TestSubdomainFormat(Trim[sub]) /\ Len(Trim[sub]) <= MaxSubdomainLength)
         IN [t |-> "obj",
             ssoSubdomain |-> Str(IF keep THEN sub ELSE ""),
             defaultAction |-> IF stored.defaultAction \in {Str("clean"), Str("deeplink")}
                               THEN stored.defaultAction ELSE Str("clean"),
             showNotifications |-> IF stored.showNotifications.t = "bool"
                                   THEN stored.showNotifications ELSE Bool(TRUE),
             autoClosePopup |-> IF stored.autoClosePopup.t = "bool"
                                THEN stored.autoClosePopup ELSE Bool(TRUE),
             roleSelectionStrategy |->
                 IF stored.roleSelectionStrategy \in {Str("current"), Str("default"), Str("account-map")}
                 THEN stored.roleSelectionStrategy ELSE Str("current"),
             defaultRoleName |-> IF IsStr(stored.defaultRoleName) THEN stored.defaultRoleName ELSE Str(""),
             accountRoleMap |-> IF stored.accountRoleMap.t = "map"
                                THEN stored.accountRoleMap ELSE EmptyMap]

\* /^\d{6,12}$/.test(s)
TestAccountId(s) == Len(s) >= 6 /\ Len(s) <= 12 /\ AllIn[s, DigitSet]

\* PopupManager.loadSessionInfo: TRUE when the content script's response passes
\* every check (the method throws otherwise).  A rejected sendMessage is the
\* response Null.
SessionResponseAccepted(response) ==
    /\ Truthy(response)
    /\ Truthy(response.success)
    /\ Truthy(response.data)
    /\ Truthy(response.data.accountId)
    /\ Truthy(response.data.roleName)
    /\ Truthy(response.data.currentUrl)
    /\ TestAccountId(JSToString(response.data.accountId))
    /\ IsStr(response.data.roleName)
    /\ Len(Trim[response.data.roleName.v]) # 0
    /\ IsStr(response.data.currentUrl)
    /\ Includes[response.data.currentUrl.v, ConsoleDomain]

\* The SessionInfo loadSessionInfo stores for an accepted response.
loadSessionInfo(response) ==
    [t |-> "obj",
     accountId |-> response.data.accountId,
     roleName |-> response.data.roleName,
     currentUrl |-> response.data.currentUrl,
     isMultiAccount |-> Bool(Truthy(response.data.isMultiAccount)),
     region |-> OrElse(response.data.region, Str("us-east-1"))]

(***************************************************************************)
(* src/background.ts                                                       *)
(***************************************************************************)
ExtensionError(type, msg) == [type |-> type, message |-> msg]

\* message.field, undefined when the message does not carry it.
MessageField(msg, field) == IF field \in DOMAIN msg THEN msg[field] ELSE Undefined

\* sender.tab?.id || message.tabId: the sender's tab first.
TabIdOfSenderFirst(msg, sender) == OrElse(sender, MessageField(msg, "tabId"))

\* message.tabId || sender.tab?.id
TabIdOf(msg, sender) == OrElse(MessageField(msg, "tabId"), sender)

\* The try block of handleMessage without the `if (!message.url)` check.
handleMessageUnchecked(msg, sender) ==
    IF msg.t # "obj" THEN Thrown("TypeError")
    ELSE IF msg.action = Str("cleanUrl")
    THEN cleanUrl(MessageField(msg, "url"))
    ELSE IF msg.action = Str("generateDeepLink")
    THEN IF ~Truthy(MessageField(msg, "sessionInfo")) \/ ~Truthy(MessageField(msg, "config"))
         THEN ExtensionError("url", "Session info and config are required")
         ELSE generateDeepLink(msg.sessionInfo, msg.config)
    ELSE IF msg.action \in {Str("getSessionInfo"), Str("getCurrentUrl")}
    THEN IF ~Truthy(TabIdOf(msg, sender))
         THEN ExtensionError("permission", "Unable to identify current tab")
         ELSE [await |-> "tabs.get"]
    ELSE ExtensionError("permission", "Unknown message action")

\* The outer try block of handleMessage up to its first await: the value it
\* returns, [await |-> "tabs.get"] when it goes on to validate the tab, or
\* what it throws.  A message that is null or undefined makes `message.action`
\* throw a TypeError.
handleMessageBody(msg, sender) ==
    IF msg.t # "obj" THEN Thrown("TypeError")
    ELSE IF msg.action = Str("cleanUrl")
    THEN IF ~Truthy(MessageField(msg, "url"))
         THEN ExtensionError("url", "URL is required for cleaning")
         ELSE cleanUrl(msg.url)
    ELSE IF msg.action = Str("generateDeepLink")
    THEN IF ~Truthy(MessageField(msg, "sessionInfo")) \/ ~Truthy(MessageField(msg, "config"))
         THEN ExtensionError("url", "Session info and config are required")
         ELSE generateDeepLink(msg.sessionInfo, msg.config)
    ELSE IF msg.action \in {Str("getSessionInfo"), Str("getCurrentUrl")}
    THEN IF ~Truthy(TabIdOf(msg, sender))
         THEN ExtensionError("permission", "Unable to identify current tab")
         ELSE [await |-> "tabs.get"]
    ELSE ExtensionError("permission", "Unknown message action")

\* The outer try without its catch clause: what the block throws escapes.
Uncaught(r) == r

\* The outer catch of handleMessage: whatever the try block throws becomes
\* the 'Background script error'.
Caught(r) ==
    IF "threw" \in DOMAIN r THEN ExtensionError("session", "Background script error") ELSE r

\* handleMessage up to its first await: the value it resolves with, or
\* [await |-> "tabs.get"] when it goes on to validate the tab.
handleMessageSync(msg, sender) == Caught(handleMessageBody(msg, sender))

\* The calls handleMessage makes before its first await, in order: the
\* url-processor function it invokes, or chrome.tabs.get (made by
\* validateAwsConsoleTab) with the tab id it passes.
handleMessageCalls(msg, sender) ==
    IF msg.t # "obj" THEN <<>>
    ELSE IF msg.action = Str("cleanUrl")
    THEN IF ~Truthy(MessageField(msg, "url")) THEN <<>>
         ELSE <<[fn |-> "cleanUrl", args |-> <<msg.url>>]>>
    ELSE IF msg.action = Str("generateDeepLink")
    THEN IF ~Truthy(MessageField(msg, "sessionInfo")) \/ ~Truthy(MessageField(msg, "config"))
         THEN <<>>
         ELSE <<[fn |-> "generateDeepLink", args |-> <<msg.sessionInfo, msg.config>>]>>
    ELSE IF msg.action \in {Str("getSessionInfo"), Str("getCurrentUrl")}
    THEN IF ~Truthy(TabIdOf(msg, sender)) THEN <<>>
         ELSE <<[fn |-> "chrome.tabs.get", args |-> <<TabIdOf(msg, sender)>>]>>
    ELSE <<>>

\* The call handleMessage makes once the tab is validated.
SendMessageCall(msg, sender) ==
    [fn |-> "chrome.tabs.sendMessage",
     args |-> <<TabIdOf(msg, sender), Obj([action |-> msg.action])>>]

\* The response of the listener's .catch handler for a rejected handleMessage.
MessageHandlingFailed(thrown) ==
    [type |-> "session", message |-> "Message handling failed",
     details |-> IF thrown = "Error" \/ thrown = "TypeError" THEN thrown ELSE "Unknown error"]

\* validateAwsConsoleTab on the outcome of chrome.tabs.get: the tab, or Null
\* for a rejected call.
validateAwsConsoleTab(tab) ==
    IF tab.t # "obj" THEN FALSE
    ELSE IF Truthy(tab.url) THEN validateAwsConsoleUrl(tab.url) ELSE FALSE

\* The message of the ExtensionError for a rejected chrome.tabs.sendMessage;
\* thrown is the Error's message, or Null for a rejection that is not an Error.
SendMessageErrorText(thrown) ==
    IF IsStr(thrown) /\ Includes[thrown.v, "Could not establish connection"]
    THEN "Content script not loaded. Please refresh the page."
    ELSE IF IsStr(thrown) /\ Includes[thrown.v, "receiving end does not exist"]
    THEN "Content script disconnected. Please refresh the page."
    ELSE "Failed to communicate with content script"

\* handleMessage after chrome.tabs.sendMessage settled: outcome is
\* [rejected |-> TRUE, error |-> ...] or [rejected |-> FALSE, response |-> ...].
handleContentOutcome(outcome) ==
    IF outcome.rejected
    THEN ExtensionError("session", SendMessageErrorText(outcome.error))
    ELSE IF outcome.response.t # "obj" \/ ~Truthy(outcome.response.success)
    THEN ExtensionError("session",
             IF outcome.response.t = "obj" /\ Truthy(outcome.response.error)
             THEN JSToString(outcome.response.error) ELSE "Content script error")
    ELSE outcome.response.data

(***************************************************************************)
(* new URLSearchParams(text): parsing a query string                       *)
(***************************************************************************)
\* The pieces of s between the occurrences of the character c.
SplitOn[s \in STRING, c \in STRING] ==
    IF FirstIn[s, {c}, 1] > Len(s) THEN <<s>>
    ELSE <<SubSeq(s, 1, FirstIn[s, {c}, 1] - 1)>> \o SplitOn[From(s, FirstIn[s, {c}, 1] + 1), c]

\* The character a percent code of the alphabet stands for.
PercentDecode(code) ==
    CASE code = "%20" -> " "
      [] code = "%23" -> "#"
      [] code = "%25" -> "%"
      [] code = "%26" -> "&"
      [] code = "%2B" -> "+"
      [] code = "%2C" -> ","
      [] code = "%2D" -> "-"
      [] code = "%2F" -> "/"
      [] code = "%3A" -> ":"
      [] code = "%3D" -> "="
      [] code = "%3F" -> "?"
      [] code = "%40" -> "@"
      [] code = "%5B" -> "["
      [] code = "%5D" -> "]"
      [] OTHER -> code

\* A position near k after which s can be cut without cutting a percent code
\* in two (one of any three positions in a row is such a position).
SafeCut(s, k) ==
    CHOOSE j \in (k - 1)..(k + 1) : CharAt(s, j) # "%" /\ (j = 1 \/ CharAt(s, j - 1) # "%")

\* application/x-www-form-urlencoded decoding of one name or value: "+" is a
\* space and %XX is the character with that code.
FormDecode[s \in STRING] ==
    IF Len(s) = 0 THEN ""
    ELSE IF Len(s) = 1 THEN (IF s = "+" THEN " " ELSE s)
    ELSE IF Len(s) <= 3 /\ Head(s) = "%" THEN PercentDecode(s)
    ELSE IF Len(s) <= 3 THEN FormDecode[Head(s)] \o FormDecode[Tail(s)]
    ELSE FormDecode[SubSeq(s, 1, SafeCut(s, Len(s) \div 2))]
         \o FormDecode[From(s, SafeCut(s, Len(s) \div 2) + 1)]

\* new URLSearchParams(q): the sequence of <<name, value>> pairs.
ParsePair[x \in STRING] ==
    <<FormDecode[SubSeq(x, 1, FirstIn[x, {"="}, 1] - 1)], FormDecode[From(x, FirstIn[x, {"="}, 1] + 1)]>>

NonEmptyPart(x) == x # ""

ParseQuery[q \in STRING] ==
    [i \in 1..Len(SelectSeq(SplitOn[q, "&"], NonEmptyPart)) |->
        ParsePair[SelectSeq(SplitOn[q, "&"], NonEmptyPart)[i]]]

(***************************************************************************)
(* src/url-processor.ts: extractRegionFromUrl                              *)
(***************************************************************************)
RegionSuffix == ".console.aws.amazon.com"

\* The rest of a match of [a-z]{2}-[a-z]+-\d+ at position i of s once the two
\* letters and the hyphen are read, letters being the length of the run of
\* [a-z] that follows: the length of the match, 0 when there is none.
RegionTail[s \in STRING, i \in Int, letters \in Int] ==
    IF letters < 1 \/ i + 3 + letters > Len(s) THEN 0
    ELSE IF CharAt(s, i + 3 + letters) # "-" THEN 0
    ELSE IF RunLength[s, DigitSet, i + 4 + letters] < 1 THEN 0
    ELSE 4 + letters + RunLength[s, DigitSet, i + 4 + letters]

\* The length of the longest match of [a-z]{2}-[a-z]+-\d+ that starts at
\* position i of s, 0 when there is none.
RegionLengthAt[s \in STRING, i \in Int] ==
    IF i + 2 > Len(s) THEN 0
    ELSE IF CharAt(s, i) \notin LowerSet \/ CharAt(s, i + 1) \notin LowerSet THEN 0
    ELSE IF CharAt(s, i + 2) # "-" THEN 0
    ELSE RegionTail[s, i, RunLength[s, LowerSet, i + 3]]

\* The positions of hostname where /([a-z]{2}-[a-z]+-\d+)\.console\.aws\.amazon\.com/
\* matches.
RegionStarts[hostname \in STRING] ==
    {i \in 1..Len(hostname) :
        /\ RegionLengthAt[hostname, i] > 0
        /\ StartsWith(From(hostname, i + RegionLengthAt[hostname, i]), RegionSuffix)}

\* match[1] of the leftmost match at one of the positions starts.
FirstRegion[hostname \in STRING, starts \in SUBSET Int] ==
    SubSeq(hostname,
           CHOOSE i \in starts : \A j \in starts : i <= j,
           (CHOOSE i \in starts : \A j \in starts : i <= j)
               + RegionLengthAt[hostname, CHOOSE i \in starts : \A j \in starts : i <= j] - 1)

\* /^[a-z]{2}-[a-z]+-\d+$/.test(s)
TestRegion[s \in STRING] == Len(s) > 0 /\ RegionLengthAt[s, 1] = Len(s)

\* URLSearchParams.get(name) on the parsed pairs: the first value, or null.
SearchGet(params, name) ==
    IF \E i \in 1..Len(params) : params[i][1] = name
    THEN Str(params[CHOOSE i \in 1..Len(params) :
                        /\ params[i][1] = name
                        /\ \A j \in 1..(i - 1) : params[j][1] # name][2])
    ELSE Null

\* regionParam && /^[a-z]{2}-[a-z]+-\d+$/.test(regionParam) ? regionParam : null
CheckedRegionParam(regionParam) ==
    IF Truthy(regionParam) /\ TestRegion[regionParam.v] THEN regionParam ELSE Null

\* extractRegionFromUrl once `new URL(url)` has returned parsedUrl.
RegionOf[parsedUrl \in URLRecord] ==
    IF RegionStarts[Hostname(parsedUrl)] # {}
    THEN Str(FirstRegion[Hostname(parsedUrl), RegionStarts[Hostname(parsedUrl)]])
    ELSE CheckedRegionParam(SearchGet(ParseQuery[parsedUrl.query], "region"))

\* A variant of extractRegionFromUrl that tries the query before the host: C19
\* tells it from the code.
extractRegionQueryFirst(url) ==
    IF ~Truthy(url) THEN Null
    ELSE IF ~ParseURL[JSToString(url)].ok THEN Null
    ELSE IF CheckedRegionParam(SearchGet(ParseQuery[ParseURL[JSToString(url)].query], "region")) # Null
    THEN CheckedRegionParam(SearchGet(ParseQuery[ParseURL[JSToString(url)].query], "region"))
    ELSE RegionOf[ParseURL[JSToString(url)]]

extractRegionFromUrl(url) ==
    IF ~Truthy(url) THEN Null
    ELSE IF ~ParseURL[JSToString(url)].ok THEN Null
    ELSE RegionOf[ParseURL[JSToString(url)]]

(***************************************************************************)
(* Inputs                                                                  *)
(***************************************************************************)
\* The largest number of '<account id>-<suffix>.' labels put in front of a host.
MaxPrefixes == 2

AccountPrefix == "123456789012-abc123."

RECURSIVE Prefixes(_)
Prefixes(k) == IF k = 0 THEN "" ELSE AccountPrefix \o Prefixes(k - 1)

BaseHosts == {"console.aws.amazon.com", "eu-west-1.console.aws.amazon.com"}

OddHosts ==
    {"123456789012-console.aws.amazon.com",
     "123456789012-ABC123.eu-west-1.console.aws.amazon.com",
     "12345-abcdef.eu-west-1.console.aws.amazon.com",
     "fake-console.aws.amazon.com",
     "Console.AWS.amazon.com",
     "console.aws.amazon.com:443",
     "console.aws.amazon.com:8443",
     "123456789012-abc123.example.com",
     "google.com"}

Hosts == {Prefixes(k) \o h : k \in 0..MaxPrefixes, h \in BaseHosts} \cup OddHosts

Schemes == {"https://", "http://", "HTTPS://", "foo://", "https:"}

Tails == {"", "/", "/cloudwatch/home?region=eu-west-1",
          "/ec2/v2/home?region=us-east-1#instances", "?filter=a&value=hello world", "/x?#"}

NotUrls == {Null, Undefined, Num("42"), [t |-> "obj"], Str(""), Str("   "), Str("not a url"),
            Str("invalid-url"), Str("console.aws.amazon.com"),
            Str("mailto:console.aws.amazon.com"),
            Str("  https://eu-west-1.console.aws.amazon.com/x  ")}

UrlInputs == {Str(sc \o h \o t) : sc \in Schemes, h \in Hosts, t \in Tails} \cup NotUrls

\* Sessions and configs handed to generateDeepLink.
MkSession(accountId, roleName, currentUrl) ==
    [t |-> "obj", accountId |-> accountId, roleName |-> roleName, currentUrl |-> currentUrl,
     isMultiAccount |-> Bool(isMultiAccountUrl(currentUrl)), region |-> Str("eu-west-1")]

MkConfig(ssoSubdomain, strategy, defaultRoleName, accountRoleMap) ==
    [t |-> "obj", ssoSubdomain |-> ssoSubdomain, defaultAction |-> Str("clean"),
     showNotifications |-> Bool(TRUE), autoClosePopup |-> Bool(FALSE),
     roleSelectionStrategy |-> strategy, defaultRoleName |-> defaultRoleName,
     accountRoleMap |-> accountRoleMap]

MultiAccountUrl == "https://123456789012-abc123.eu-west-1.console.aws.amazon.com/cloudwatch/home?region=eu-west-1"
PlainConsoleUrl == "https://eu-west-1.console.aws.amazon.com/ec2/v2/home?region=us-east-1#instances"

DeepLinkUrls ==
    {Str(MultiAccountUrl), Str(PlainConsoleUrl),
     Str("https://console.aws.amazon.com?filter=a&value=hello world"),
     Str("https://google.com/search"), Str("not a url"), Str(""), Undefined}

AccountIds == {Str("123456789012"), Str("12345"), Str(""), Undefined}

RoleNames == {Str("PlatformAccess"), Str("Read+Only=a&b"), Str(""), Undefined, Num("5")}

SessionInputs ==
    {Null, Undefined}
    \cup {MkSession(a, r, u) : a \in AccountIds, r \in RoleNames, u \in DeepLinkUrls}

Subdomains ==
    {Undefined, Str(""), Str("   "), Str("mycompany"), Str("  mycompany  "),
     Str("MyCompany"), Str("a/b"), Str("my co"), Str("invalid-subdomain-")}

ConfigInputs ==
    {Null, Undefined} \cup {MkConfig(sub, Str("current"), Str(""), EmptyMap) : sub \in Subdomains}

\* Sessions and configs handed to resolveRoleName.
Strategies == {Str("current"), Str("default"), Str("account-map"), Str("other"), Str(""), Undefined}

DefaultRoleNames == {Str(""), Str("ViewOnlyAccess")}

RoleMaps ==
    {EmptyMap,
     MapOf("123456789012" :> Str("ReadOnlyAccess")),
     MapOf("123456789012" :> Str("")),
     MapOf("987654321098" :> Str("DeveloperAccess"))}

RoleSessions ==
    {MkSession(a, r, Str(PlainConsoleUrl)) :
        a \in {Str("123456789012"), Str("555666777888")}, r \in {Str("PlatformAccess"), Str("")}}

RoleConfigs ==
    {MkConfig(Str("mycompany"), st, d, m) : st \in Strategies, d \in DefaultRoleNames, m \in RoleMaps}

\* Values handed to validateSessionInfo, declared `any`.
ValidatedAccountIds == {Str("123456789012"), Str("123456"), Str("12345"), Str("12345a"),
                        Str(""), Undefined, Num("123456")}

ValidatedRoleNames == {Str("TestRole"), Str("invalid@role#"), Str("   "), Str(""), Undefined,
                       Num("5"), Bool(TRUE)}

ValidatedUrls == {Str(PlainConsoleUrl), Str("http://console.aws.amazon.com/"),
                  Str("https://example.com"), Str(""), Undefined, Num("7")}

NotObjects == {Null, Undefined, Num("0"), Num("42"), Str(""), Str("abc"), Bool(FALSE), Bool(TRUE)}

ValidatedSessions ==
    NotObjects \cup {[t |-> "obj"]}
    \cup {Obj([accountId |-> a, roleName |-> r, currentUrl |-> u]) :
            a \in ValidatedAccountIds, r \in ValidatedRoleNames, u \in ValidatedUrls}

\* Values handed to validateExtensionConfig, declared `any`.
ValidatedConfigs ==
    NotObjects \cup {[t |-> "obj"]}
    \cup {Obj([ssoSubdomain |-> sub]) :
            sub \in {Undefined, Null, Str(""), Str("   "), Str("mycompany"), Str("invalid-subdomain-"),
                     Num("5"), Bool(TRUE)}}

\* URLs handed to extractRegionFromUrl.
RegionHosts ==
    {"console.aws.amazon.com", "eu-west-1.console.aws.amazon.com",
     AccountPrefix \o "ap-southeast-2.console.aws.amazon.com",
     "us-gov-west-1.console.aws.amazon.com", "invalid-region.console.aws.amazon.com",
     "EU-WEST-1.console.aws.amazon.com", "eu-west-1.example.com", "example.com"}

RegionTails ==
    {"/cloudwatch", "/cloudwatch?region=us-west-2", "/x?a=1&region=us-east-1&region=eu-north-1",
     "/x?region=invalid", "/x?region=US-EAST-1", "/x?region=", "/x?region=us-west-2x",
     "/x?Region=us-west-2", "/x#region=us-west-2", "/x?region=us%2Dwest%2D2"}

RegionUrlInputs ==
    {Str("https://" \o h \o t) : h \in RegionHosts, t \in RegionTails}
    \cup {Str("foo://EU-WEST-1.console.aws.amazon.com/x?region=us-west-2")}
    \cup NotUrls

(***************************************************************************)
(* The options page (src/options/options.ts)                               *)
(***************************************************************************)
DEFAULT_CONFIG ==
    [t |-> "obj", ssoSubdomain |-> Str(""), defaultAction |-> Str("clean"),
     showNotifications |-> Bool(TRUE), autoClosePopup |-> Bool(FALSE),
     roleSelectionStrategy |-> Str("current"), defaultRoleName |-> Str(""),
     accountRoleMap |-> EmptyMap]

\* chrome.storage.sync with nothing stored: every key is absent.
NoItems == [k \in DOMAIN DEFAULT_CONFIG |-> IF k = "t" THEN "obj" ELSE Undefined]

\* chrome.storage.sync.get(defaults): the stored items, the default for each
\* key that is absent.
StorageGet(items, defaults) ==
    [k \in DOMAIN defaults |->
        IF k = "t" THEN "obj" ELSE IF items[k] = Undefined THEN defaults[k] ELSE items[k]]

OptionsResult(errors) == [valid |-> errors = <<>>, errors |-> errors]

MinSubdomainLength == 2
MaxOptionsSubdomainLength == 63
MaxRoleNameLength == 64
MapAccountIdLength == 12

\* validateSubdomain with the length check only.
validateSubdomainLengthOnly(subdomain) ==
    IF Trim[subdomain] = "" THEN OptionsResult(<<"AWS SSO subdomain is required">>)
    ELSE IF Len(Trim[subdomain]) < MinSubdomainLength
            \/ Len(Trim[subdomain]) > MaxOptionsSubdomainLength
    THEN OptionsResult(<<"Subdomain must be 2-63 characters long">>)
    ELSE OptionsResult(<<>>)

\* validateSubdomain of the options page.
validateSubdomain(subdomain) ==
    IF Trim[subdomain] = "" THEN OptionsResult(<<"AWS SSO subdomain is required">>)
    ELSE IF Len(Trim[subdomain]) < MinSubdomainLength
            \/ Len(Trim[subdomain]) > MaxOptionsSubdomainLength
    THEN OptionsResult(<<"Subdomain must be 2-63 characters long">>)
    ELSE IF ~TestSubdomainFormat(Trim[subdomain])
    THEN OptionsResult(<<"Invalid subdomain format">>)
    ELSE OptionsResult(<<>>)

\* The characters of /^[a-zA-Z0-9+=,.@_-]+$/
RoleNameChars == AlnumSet \cup {"+", "=", ",", ".", "@", "_", "-"}

\* validateRoleName of the options page.
validateRoleName(roleName) ==
    IF Trim[roleName] = "" THEN OptionsResult(<<"Role name is required">>)
    ELSE IF Len(Trim[roleName]) > MaxRoleNameLength
    THEN OptionsResult(<<"Role name too long (max 64 characters)">>)
    ELSE IF ~AllIn[Trim[roleName], RoleNameChars]
    THEN OptionsResult(<<"Invalid role name characters">>)
    ELSE OptionsResult(<<>>)

\* /^\d{12}$/.test(s)
TestMapAccountId(s) == Len(s) = MapAccountIdLength /\ AllIn[s, DigitSet]

\* parseAccountRoleMap: the errors the loop pushes for line i (1-based).
LineErrors(line, i) ==
    IF Trim[line] = "" THEN <<>>
    ELSE IF Len(SplitOn[Trim[line], ":"]) # 2
    THEN <<"Line " \o ToString(i) \o ": Use format AccountID:RoleName">>
    ELSE (IF TestMapAccountId(Trim[SplitOn[Trim[line], ":"][1]]) THEN <<>>
          ELSE <<"Line " \o ToString(i) \o ": Invalid account ID (must be 12 digits)">>)
         \o
         (IF Trim[SplitOn[Trim[line], ":"][2]] # "" THEN <<>>
          ELSE <<"Line " \o ToString(i) \o ": Role name required">>)

\* The errors array after the loop ran over lines 1..n.
RECURSIVE ErrorsThrough(_, _)
ErrorsThrough(lines, n) ==
    IF n = 0 THEN <<>> ELSE ErrorsThrough(lines, n - 1) \o LineErrors(lines[n], n)

\* Line i assigns map[accountId] = roleName: it has the two parts and the
\* errors array is still empty after it.
LineAssigns(lines, i) ==
    /\ Trim[lines[i]] # ""
    /\ Len(SplitOn[Trim[lines[i]], ":"]) = 2
    /\ ErrorsThrough(lines, i) = <<>>

LineAccountId(line) == Trim[SplitOn[Trim[line], ":"][1]]
LineRoleName(line) == Trim[SplitOn[Trim[line], ":"][2]]

\* The map object the loop builds: a later line overwrites an earlier one.
LinesMap(lines) ==
    [id \in {LineAccountId(lines[i]) : i \in {j \in 1..Len(lines) : LineAssigns(lines, j)}} |->
        Str(LineRoleName(lines[
            CHOOSE i \in 1..Len(lines) :
                /\ LineAssigns(lines, i) /\ LineAccountId(lines[i]) = id
                /\ \A j \in (i + 1)..Len(lines) :
                       ~(LineAssigns(lines, j) /\ LineAccountId(lines[j]) = id)]))]

\* parseAccountRoleMap of the options page.
parseAccountRoleMap(mapText) ==
    IF Trim[mapText] = "" THEN [valid |-> TRUE, errors |-> <<>>, map |-> EmptyMap]
    ELSE [valid |-> ErrorsThrough(SplitOn[Trim[mapText], "\n"],
                                  Len(SplitOn[Trim[mapText], "\n"])) = <<>>,
          errors |-> ErrorsThrough(SplitOn[Trim[mapText], "\n"],
                                   Len(SplitOn[Trim[mapText], "\n"])),
          map |-> MapOf(LinesMap(SplitOn[Trim[mapText], "\n"]))]

\* The strategies for which handleFormSubmit validates the default role name.
UsesDefaultRole(strategy) == strategy \in {"default", "account-map"}

\* The mapping parsed from the textarea whatever the strategy.
SubmittedMapAnyStrategy(form) == parseAccountRoleMap(Trim[form.accountRoleMap]).map

\* handleFormSubmit: the accountRoleMap of the config it saves; {} unless the
\* strategy is 'account-map'.
SubmittedMap(form) ==
    IF form.roleSelectionStrategy = "account-map"
    THEN parseAccountRoleMap(Trim[form.accountRoleMap]).map
    ELSE EmptyMap

\* handleFormSubmit up to saveSettings: the field error it shows, or the
\* config it passes to saveSettings.  form holds the values FormData gives.
SubmitOutcome(form) ==
    IF ~validateSubdomain(Trim[form.ssoSubdomain]).valid
    THEN [field |-> "ssoSubdomain",
          error |-> validateSubdomain(Trim[form.ssoSubdomain]).errors[1]]
    ELSE IF /\ UsesDefaultRole(form.roleSelectionStrategy)
            /\ Trim[form.defaultRoleName] # ""
            /\ ~validateRoleName(Trim[form.defaultRoleName]).valid
    THEN [field |-> "defaultRoleName",
          error |-> validateRoleName(Trim[form.defaultRoleName]).errors[1]]
    ELSE IF /\ form.roleSelectionStrategy = "account-map"
            /\ ~parseAccountRoleMap(Trim[form.accountRoleMap]).valid
    THEN [field |-> "accountRoleMap",
          error |-> parseAccountRoleMap(Trim[form.accountRoleMap]).errors[1]]
    ELSE [config |->
            [t |-> "obj",
             ssoSubdomain |-> Str(Trim[form.ssoSubdomain]),
             defaultAction |-> Str(IF form.defaultAction # "" THEN form.defaultAction ELSE "clean"),
             showNotifications |-> Bool(form.showNotifications),
             autoClosePopup |-> Bool(form.autoClosePopup),
             roleSelectionStrategy |-> Str(form.roleSelectionStrategy),
             defaultRoleName |-> Str(Trim[form.defaultRoleName]),
             accountRoleMap |-> SubmittedMap(form)]]

\* The textarea text loadSettings builds from the mapping: one
\* 'accountId:roleName' line per entry.
RECURSIVE EntriesText(_)
EntriesText(m) ==
    IF DOMAIN m = {} THEN ""
    ELSE LET id == CHOOSE k \in DOMAIN m : TRUE
             rest == [k \in DOMAIN m \ {id} |-> m[k]]
         IN id \o ":" \o JSToString(m[id]) \o (IF DOMAIN rest = {} THEN "" ELSE "\n" \o EntriesText(rest))

\* loadSettings: the form values it sets from the config it read.
FormOf(config) ==
    [ssoSubdomain |-> IF Truthy(config.ssoSubdomain) THEN JSToString(config.ssoSubdomain) ELSE "",
     defaultAction |-> IF Truthy(config.defaultAction) THEN JSToString(config.defaultAction) ELSE "clean",
     showNotifications |-> config.showNotifications # Bool(FALSE),
     autoClosePopup |-> config.autoClosePopup = Bool(TRUE),
     roleSelectionStrategy |-> IF Truthy(config.roleSelectionStrategy)
                               THEN JSToString(config.roleSelectionStrategy) ELSE "current",
     defaultRoleName |-> IF Truthy(config.defaultRoleName) THEN JSToString(config.defaultRoleName) ELSE "",
     accountRoleMap |-> IF config.accountRoleMap.t = "map" THEN EntriesText(config.accountRoleMap.m) ELSE ""]

NoFieldErrors == [ssoSubdomain |-> "", defaultRoleName |-> "", accountRoleMap |-> ""]

\* The form as options.html declares it, before loadSettings fills it.
BlankForm ==
    [ssoSubdomain |-> "", defaultAction |-> "clean", showNotifications |-> FALSE,
     autoClosePopup |-> FALSE, roleSelectionStrategy |-> "current", defaultRoleName |-> "",
     accountRoleMap |-> ""]

(***************************************************************************)
(* State                                                                   *)
(***************************************************************************)
VARIABLES
    op,                 \* the url-processor function or resolveRoleName last called
    args,               \* its arguments
    ret,                \* its return value
    currentSessionInfo, \* PopupManager.currentSessionInfo
    popupConfig,        \* PopupManager.config
    listeners,          \* the popup's click handlers are registered
    buttonsDisabled,    \* disableButtons() ran
    resultUrl,          \* value of the popup's result textarea
    resultSection,      \* display style of the popup's result section
    message,            \* the popup's message area: [kind, text]
    clipboard,          \* what the popup wrote to the clipboard
    closeScheduled,     \* the popup set the timer that closes the window
    popupTab,           \* the active tab chrome.tabs.query gave the popup
    popupStored,        \* what chrome.storage.sync.get gave the popup
    popupResponse,      \* what the content script answered the popup
    bgPc,               \* where the background's handleMessage stands
    bgMessage,          \* the message the background listener received
    bgSender,           \* sender.tab?.id of that message
    bgResult,           \* the value handleMessage resolved with
    bgSent,             \* the last response handed to sendResponse
    bgCalls,            \* the calls handleMessage made for that message, in order
    bgTab,              \* what chrome.tabs.get settled with for that message
    bgResponses,        \* how many times sendResponse was called for that message
    bgReturned,         \* what the listener returned for that message
    syncStorage,        \* the items of chrome.storage.sync the options page writes
    formValues,         \* the values of the options form's fields
    fieldErrors,        \* the error text shown under each field of the options form
    statusMessage,      \* the options page's status message: [kind, text]
    storageSetCall,     \* the chrome.storage.sync.set call of the last options handler
    optionsLoaded       \* initializeOptions registered the form's listeners

coreVars == <<op, args, ret>>
popupEnv == <<popupTab, popupStored, popupResponse>>
popupVars == <<currentSessionInfo, popupConfig, listeners, buttonsDisabled, resultUrl,
               resultSection, message, clipboard, closeScheduled, popupEnv>>
bgVars == <<bgPc, bgMessage, bgSender, bgResult, bgSent, bgCalls, bgTab, bgResponses, bgReturned>>
optionsVars == <<syncStorage, formValues, fieldErrors, statusMessage, storageSetCall,
                 optionsLoaded>>
vars == <<op, args, ret, currentSessionInfo, popupConfig, listeners, buttonsDisabled,
          resultUrl, resultSection, message, clipboard, closeScheduled,
          popupTab, popupStored, popupResponse,
          bgPc, bgMessage, bgSender, bgResult, bgSent, bgCalls, bgTab, bgResponses,
          bgReturned, syncStorage, formValues, fieldErrors, statusMessage, storageSetCall,
          optionsLoaded>>

NoMessage == [kind |-> "none", text |-> ""]

\* The value of a call that was not made.
NotRequested == [t |-> "pending"]

Init ==
    /\ op = "none"
    /\ args = <<>>
    /\ ret = Undefined
    /\ currentSessionInfo = Null
    /\ popupConfig = Null
    /\ listeners = FALSE
    /\ buttonsDisabled = FALSE
    /\ resultUrl = ""
    /\ resultSection = "none"
    /\ message = NoMessage
    /\ clipboard = ""
    /\ closeScheduled = FALSE
    /\ popupTab = NotRequested
    /\ popupStored = NotRequested
    /\ popupResponse = NotRequested
    /\ bgPc = "idle"
    /\ bgMessage = Undefined
    /\ bgSender = Undefined
    /\ bgResult = Undefined
    /\ bgSent = Undefined
    /\ bgCalls = <<>>
    /\ bgTab = Undefined
    /\ bgResponses = 0
    /\ bgReturned = Undefined
    /\ syncStorage = NoItems
    /\ formValues = BlankForm
    /\ fieldErrors = NoFieldErrors
    /\ statusMessage = NoMessage
    /\ storageSetCall = NotRequested
    /\ optionsLoaded = FALSE

(***************************************************************************)
(* The url-processor functions and resolveRoleName, called on the inputs.  *)
(* The functions are pure, so a behaviour is one call: it takes the        *)
(* arguments from the input sets and records the return value.             *)
(***************************************************************************)
CallCleanUrl ==
    /\ op = "none"
    /\ \E u \in UrlInputs :
        /\ op' = "cleanUrl"
        /\ args' = [url |-> u]
        /\ ret' = cleanUrl(u)
        /\ UNCHANGED <<popupVars, bgVars, optionsVars>>

CallIsMultiAccountUrl ==
    /\ op = "none"
    /\ \E u \in UrlInputs :
        /\ op' = "isMultiAccountUrl"
        /\ args' = [url |-> u]
        /\ ret' = isMultiAccountUrl(u)
        /\ UNCHANGED <<popupVars, bgVars, optionsVars>>

CallValidateAwsConsoleUrl ==
    /\ op = "none"
    /\ \E u \in UrlInputs :
        /\ op' = "validateAwsConsoleUrl"
        /\ args' = [url |-> u]
        /\ ret' = validateAwsConsoleUrl(u)
        /\ UNCHANGED <<popupVars, bgVars, optionsVars>>

CallGenerateDeepLink ==
    /\ op = "none"
    /\ \E s \in SessionInputs, c \in ConfigInputs :
        /\ op' = "generateDeepLink"
        /\ args' = [sessionInfo |-> s, config |-> c]
        /\ ret' = generateDeepLink(s, c)
        /\ UNCHANGED <<popupVars, bgVars, optionsVars>>

CallResolveRoleName ==
    /\ op = "none"
    /\ \E s \in RoleSessions, c \in RoleConfigs :
        /\ op' = "resolveRoleName"
        /\ args' = [sessionInfo |-> s, config |-> c]
        /\ ret' = resolveRoleName(s, c)
        /\ UNCHANGED <<popupVars, bgVars, optionsVars>>

CallValidateSessionInfo ==
    /\ op = "none"
    /\ \E s \in ValidatedSessions :
        /\ op' = "validateSessionInfo"
        /\ args' = [sessionInfo |-> s]
        /\ ret' = validateSessionInfo(s)
        /\ UNCHANGED <<popupVars, bgVars, optionsVars>>

CallValidateExtensionConfig ==
    /\ op = "none"
    /\ \E c \in ValidatedConfigs :
        /\ op' = "validateExtensionConfig"
        /\ args' = [config |-> c]
        /\ ret' = validateExtensionConfig(c)
        /\ UNCHANGED <<popupVars, bgVars, optionsVars>>

CallExtractRegionFromUrl ==
    /\ op = "none"
    /\ \E u \in RegionUrlInputs :
        /\ op' = "extractRegionFromUrl"
        /\ args' = [url |-> u]
        /\ ret' = extractRegionFromUrl(u)
        /\ UNCHANGED <<popupVars, bgVars, optionsVars>>

(***************************************************************************)
(* src/popup/popup.ts: the popup                                           *)
(***************************************************************************)
\* What chrome.tabs.query hands initializePopup as the active tab.
TabInputs ==
    {Undefined,
     Obj([id |-> Undefined, url |-> Str(PlainConsoleUrl)]),
     Obj([id |-> Num("7"), url |-> Undefined]),
     Obj([id |-> Num("7"), url |-> Str("https://google.com/search")]),
     Obj([id |-> Num("7"), url |-> Str(MultiAccountUrl)])}

\* What chrome.storage.sync.get resolves with (Null: the read is rejected).
StoredInputs ==
    {Null}
    \cup {Obj([ssoSubdomain |-> sub, defaultAction |-> Undefined, showNotifications |-> Undefined,
               autoClosePopup |-> ac, roleSelectionStrategy |-> st, defaultRoleName |-> d,
               accountRoleMap |-> m]) :
            sub \in {Undefined, Str("mycompany"), Str("MyCompany"), Str("-bad-")},
            ac \in {Undefined, Bool(FALSE)},
            st \in {Undefined, Str("default"), Str("account-map")},
            d \in {Undefined, Str("ViewOnlyAccess")},
            m \in {Undefined, MapOf("123456789012" :> Str("ReadOnlyAccess")),
                   MapOf("123456789012" :> Str(""))}}

\* What the content script answers to 'getSessionInfo' (Null: no answer, or
\* the call is rejected).
SessionDataInputs ==
    {Obj([accountId |-> a, roleName |-> r, currentUrl |-> u, isMultiAccount |-> Bool(FALSE),
          region |-> Undefined]) :
        a \in {Str("123456789012"), Str("12345")},
        r \in {Str("PlatformAccess"), Str("  ")},
        u \in {Str(MultiAccountUrl), Str(PlainConsoleUrl), Str("https://google.com/search")}}

ResponseInputs ==
    {Null,
     Obj([success |-> Bool(FALSE), error |-> Str("Account ID not found"), data |-> Undefined]),
     Obj([success |-> Bool(TRUE), error |-> Undefined, data |-> Undefined])}
    \cup {Obj([success |-> Bool(TRUE), error |-> Undefined, data |-> d]) : d \in SessionDataInputs}

PopupFresh ==
    /\ currentSessionInfo = Null
    /\ popupConfig = Null
    /\ ~listeners
    /\ ~buttonsDisabled
    /\ message = NoMessage

ErrorMessage(text) == [kind |-> "error", text |-> text]
SuccessMessage(text) == [kind |-> "success", text |-> text]

\* PopupManager.initializePopup, with the active tab, the stored items and the
\* content script's answer it gets.
initializePopup ==
    /\ PopupFresh
    /\ \E tab \in TabInputs, stored \in StoredInputs, response \in ResponseInputs :
        /\ popupTab' = tab
        /\ IF validateCurrentTab(tab) # ""
           THEN /\ message' = ErrorMessage(validateCurrentTab(tab))
                /\ buttonsDisabled' = TRUE
                /\ UNCHANGED <<currentSessionInfo, popupConfig, listeners, popupStored,
                               popupResponse>>
           ELSE /\ popupStored' = stored
                /\ popupResponse' = response
                /\ popupConfig' = loadConfiguration(stored)
                /\ IF ~SessionResponseAccepted(response)
                   THEN /\ message' = ErrorMessage("Unable to extract AWS session information. Please ensure you are logged in and the page has fully loaded.")
                        /\ buttonsDisabled' = TRUE
                        /\ UNCHANGED <<currentSessionInfo, listeners>>
                   ELSE /\ currentSessionInfo' = loadSessionInfo(response)
                        /\ listeners' = TRUE
                        /\ message' = SuccessMessage("Extension loaded successfully!")
                        /\ UNCHANGED buttonsDisabled
        /\ UNCHANGED <<resultUrl, resultSection, clipboard, closeScheduled>>
        /\ UNCHANGED <<coreVars, bgVars, optionsVars>>

ResultLabel(result) == IF result.type = "clean" THEN "Clean URL" ELSE "Deep link"

\* PopupManager.displayResult; copyOk is whether copyToClipboard succeeds.
displayResult(result, copyOk) ==
    IF result.success /\ result.url # ""
    THEN /\ resultUrl' = result.url
         /\ resultSection' = "block"
         /\ clipboard' = IF copyOk THEN result.url ELSE clipboard
         /\ message' = SuccessMessage(ResultLabel(result) \o
                           (IF copyOk THEN " generated and copied to clipboard!"
                            ELSE " generated successfully! Click Copy to copy to clipboard."))
         /\ closeScheduled' = (closeScheduled \/ (copyOk /\ Truthy(popupConfig.autoClosePopup)))
    ELSE /\ resultSection' = "none"
         /\ message' = ErrorMessage(IF "error" \in DOMAIN result /\ result.error # ""
                                    THEN result.error ELSE "Unknown error occurred")
         /\ UNCHANGED <<resultUrl, clipboard, closeScheduled>>

\* PopupManager.handleCleanUrl: a click on Clean URL.
handleCleanUrl ==
    /\ listeners
    /\ \E copyOk \in BOOLEAN :
        /\ IF ~Truthy(SessionField(currentSessionInfo, "currentUrl"))
           THEN /\ message' = ErrorMessage("Session information not available. Please refresh the page and try again.")
                /\ UNCHANGED <<resultUrl, resultSection, clipboard, closeScheduled>>
           ELSE \E result \in {cleanUrl(currentSessionInfo.currentUrl)} :
                   IF ~result.success
                   THEN /\ message' = ErrorMessage("URL cleaning failed: " \o result.error)
                        /\ UNCHANGED <<resultUrl, resultSection, clipboard, closeScheduled>>
                   ELSE displayResult(result, copyOk)
        /\ UNCHANGED <<currentSessionInfo, popupConfig, listeners, buttonsDisabled, popupEnv>>
        /\ UNCHANGED <<coreVars, bgVars, optionsVars>>

\* { ...sessionInfo, roleName }
WithRoleName(sessionInfo, roleName) == [sessionInfo EXCEPT !.roleName = roleName]

\* sessionInfo.roleName = roleName: the role written into the object itself.
SourceAssigned(sessionInfo, roleName) == [sessionInfo EXCEPT !.roleName = roleName]

\* The object a spread copies from, after { ...sessionInfo, roleName }: as it was.
SourceAfterSpread(sessionInfo, roleName) == sessionInfo

\* The UrlResult handleGenerateDeepLink gets for the popup's session and config.
PopupDeepLink(sessionInfo, config) ==
    generateDeepLink(WithRoleName(sessionInfo, resolveRoleName(sessionInfo, config)), config)

\* PopupManager.handleGenerateDeepLink: a click on Generate Deep Link.
handleGenerateDeepLink ==
    /\ listeners
    /\ \E copyOk \in BOOLEAN :
        /\ IF ~Truthy(currentSessionInfo) \/ ~Truthy(popupConfig)
           THEN /\ message' = ErrorMessage("Session information or configuration not available. Please refresh the page and try again.")
                /\ UNCHANGED <<resultUrl, resultSection, clipboard, closeScheduled>>
           ELSE IF Trim[popupConfig.ssoSubdomain.v] = ""
           THEN /\ message' = ErrorMessage("AWS SSO subdomain not configured. Please go to Settings and enter your organization's SSO subdomain.")
                /\ UNCHANGED <<resultUrl, resultSection, clipboard, closeScheduled>>
           ELSE \E result \in {PopupDeepLink(currentSessionInfo, popupConfig)} :
                   IF ~result.success
                   THEN /\ message' = ErrorMessage("Deep link generation failed: " \o result.error)
                        /\ UNCHANGED <<resultUrl, resultSection, clipboard, closeScheduled>>
                   ELSE displayResult(result, copyOk)
        /\ currentSessionInfo' =
               IF Truthy(currentSessionInfo) /\ Truthy(popupConfig)
                  /\ Trim[popupConfig.ssoSubdomain.v] # ""
               THEN SourceAfterSpread(currentSessionInfo,
                                      resolveRoleName(currentSessionInfo, popupConfig))
               ELSE currentSessionInfo
        /\ UNCHANGED <<popupConfig, listeners, buttonsDisabled, popupEnv>>
        /\ UNCHANGED <<coreVars, bgVars, optionsVars>>

\* PopupManager.handleCopyToClipboard: a click on Copy.
handleCopyToClipboard ==
    /\ listeners
    /\ \E copyOk \in BOOLEAN :
        /\ IF resultUrl = ""
           THEN /\ message' = ErrorMessage("No URL to copy")
                /\ UNCHANGED <<clipboard, closeScheduled>>
           ELSE IF copyOk
           THEN /\ clipboard' = resultUrl
                /\ message' = SuccessMessage("URL copied to clipboard!")
                /\ closeScheduled' = (closeScheduled \/ Truthy(popupConfig.autoClosePopup))
           ELSE /\ message' = ErrorMessage("Failed to copy URL to clipboard")
                /\ UNCHANGED <<clipboard, closeScheduled>>
        /\ UNCHANGED <<currentSessionInfo, popupConfig, listeners, buttonsDisabled,
                       resultUrl, resultSection, popupEnv>>
        /\ UNCHANGED <<coreVars, bgVars, optionsVars>>

NextPopup ==
    \/ initializePopup
    \/ handleCleanUrl
    \/ handleGenerateDeepLink
    \/ handleCopyToClipboard

SpecPopup == Init /\ [][NextPopup]_vars

(***************************************************************************)
(* src/background.ts: the message listener                                 *)
(***************************************************************************)
\* Messages chrome.runtime.onMessage delivers to the listener.
DeepLinkMessages ==
    {Obj([action |-> Str("generateDeepLink")]),
     Obj([action |-> Str("generateDeepLink"),
          sessionInfo |-> MkSession(Str("123456789012"), Str("PlatformAccess"),
                                    Str(MultiAccountUrl))]),
     Obj([action |-> Str("generateDeepLink"), sessionInfo |-> Null,
          config |-> MkConfig(Str("mycompany"), Str("current"), Str(""), EmptyMap)])}
    \cup {Obj([action |-> Str("generateDeepLink"),
               sessionInfo |-> MkSession(Str("123456789012"), Str("PlatformAccess"), u),
               config |-> MkConfig(sub, st, d, m)]) :
            u \in {Str(MultiAccountUrl), Str("https://google.com/search")},
            sub \in {Str("mycompany"), Str("")},
            st \in {Str("current"), Str("default"), Str("account-map")},
            d \in DefaultRoleNames,
            m \in {EmptyMap, MapOf("123456789012" :> Str("ReadOnlyAccess"))}}

MessageInputs ==
    {Null,
     Obj([action |-> Str("ping")]),
     Obj([action |-> Num("5")]),
     Obj([action |-> Str("cleanUrl")]),
     Obj([action |-> Str("cleanUrl"), url |-> Str("")]),
     Obj([action |-> Str("cleanUrl"), url |-> Str(MultiAccountUrl)]),
     Obj([action |-> Str("cleanUrl"), url |-> Str("https://google.com/search")]),
     Obj([action |-> Str("getSessionInfo")]),
     Obj([action |-> Str("getCurrentUrl")]),
     Obj([action |-> Str("getSessionInfo"), tabId |-> Num("7")])}
    \cup DeepLinkMessages

\* sender.tab?.id
SenderInputs == {Undefined, Num("3")}

\* What chrome.tabs.get settles with (Null: rejected).
BgTabInputs ==
    {Null,
     Obj([url |-> Undefined]),
     Obj([url |-> Str(MultiAccountUrl)]),
     Obj([url |-> Str("http://console.aws.amazon.com/")]),
     Obj([url |-> Str("https://google.com/search")])}

\* What chrome.tabs.sendMessage settles with.
OutcomeInputs ==
    {[rejected |-> TRUE, error |-> e] :
        e \in {Null, Str("Could not establish connection. Receiving end does not exist."),
               Str("The receiving end does not exist"), Str("Tab was closed")}}
    \cup {[rejected |-> FALSE, response |-> r] :
            r \in {Undefined,
                   Obj([success |-> Bool(FALSE), error |-> Undefined, data |-> Undefined]),
                   Obj([success |-> Bool(FALSE), error |-> Str("Account ID not found"),
                        data |-> Undefined]),
                   Obj([success |-> Bool(TRUE), error |-> Undefined,
                        data |-> MkSession(Str("123456789012"), Str("PlatformAccess"),
                                           Str(MultiAccountUrl))])}}

\* The listener of chrome.runtime.onMessage: handleMessage runs up to its
\* first await and the listener returns true.
onMessage ==
    /\ bgPc = "idle"
    /\ \E msg \in MessageInputs, sender \in SenderInputs :
        \E r \in {handleMessageSync(msg, sender)} :
            /\ bgMessage' = msg
            /\ bgSender' = sender
            /\ IF "await" \in DOMAIN r
               THEN bgPc' = "tabs.get" /\ UNCHANGED bgResult
               ELSE bgPc' = "resolved" /\ bgResult' = r
            /\ bgCalls' = handleMessageCalls(msg, sender)
            /\ bgTab' = Undefined
            /\ bgResponses' = 0
            /\ bgReturned' = Bool(TRUE)
            /\ UNCHANGED bgSent
            /\ UNCHANGED <<coreVars, popupVars, optionsVars>>

\* chrome.tabs.get settles: the rest of validateAwsConsoleTab and the check
\* on its result; for a valid tab handleMessage calls chrome.tabs.sendMessage.
tabsGetSettled ==
    /\ bgPc = "tabs.get"
    /\ \E tab \in BgTabInputs :
        /\ bgTab' = tab
        /\ IF ~validateAwsConsoleTab(tab)
           THEN /\ bgResult' = ExtensionError("permission", "Extension only works on AWS Console pages")
                /\ bgPc' = "resolved"
                /\ UNCHANGED bgCalls
           ELSE /\ bgPc' = "sendMessage"
                /\ bgCalls' = Append(bgCalls, SendMessageCall(bgMessage, bgSender))
                /\ UNCHANGED bgResult
        /\ UNCHANGED <<bgMessage, bgSender, bgSent, bgResponses, bgReturned>>
        /\ UNCHANGED <<coreVars, popupVars, optionsVars>>

\* chrome.tabs.sendMessage settles: handleMessage resolves.
sendMessageSettled ==
    /\ bgPc = "sendMessage"
    /\ \E outcome \in OutcomeInputs :
        /\ bgResult' = handleContentOutcome(outcome)
        /\ bgPc' = "resolved"
        /\ UNCHANGED <<bgMessage, bgSender, bgSent, bgCalls, bgTab, bgResponses, bgReturned>>
        /\ UNCHANGED <<coreVars, popupVars, optionsVars>>

\* .then(response => sendResponse(response)), or the .catch handler when
\* handleMessage rejected.
sendResponse ==
    /\ bgPc = "resolved"
    /\ bgSent' = IF "threw" \in DOMAIN bgResult
                 THEN MessageHandlingFailed(bgResult.threw) ELSE bgResult
    /\ bgResponses' = bgResponses + 1
    /\ bgPc' = "idle"
    /\ UNCHANGED <<bgMessage, bgSender, bgResult, bgCalls, bgTab, bgReturned>>
    /\ UNCHANGED <<coreVars, popupVars, optionsVars>>

NextBackground ==
    \/ onMessage
    \/ tabsGetSettled
    \/ sendMessageSettled
    \/ sendResponse

SpecBackground == Init /\ [][NextBackground]_vars

\* The promises of chrome.tabs.get and chrome.tabs.sendMessage settle, and the
\* event loop runs the reactions of a settled promise.
FairBackground ==
    /\ WF_vars(tabsGetSettled)
    /\ WF_vars(sendMessageSettled)
    /\ WF_vars(sendResponse)

SpecBackgroundFair == SpecBackground /\ FairBackground

(***************************************************************************)
(* The options page: its handlers                                          *)
(***************************************************************************)
MkForm(subdomain, strategy, roleName, mapText, autoClose) ==
    [ssoSubdomain |-> subdomain, defaultAction |-> "clean", showNotifications |-> TRUE,
     autoClosePopup |-> autoClose, roleSelectionStrategy |-> strategy,
     defaultRoleName |-> roleName, accountRoleMap |-> mapText]

LongSubdomain == "aaaaaaaaaaaaaaaaaaaaaaaaaaaaaaaaaaaaaaaaaaaaaaaaaaaaaaaaaaaaaaaa"
LongRoleName == "RRRRRRRRRRRRRRRRRRRRRRRRRRRRRRRRRRRRRRRRRRRRRRRRRRRRRRRRRRRRRRRRR"

MapTexts ==
    {"", "123456789012:ReadOnlyAccess",
     "123456789012:ReadOnlyAccess\n\n 999999999999 : Admin \n123456789012:Auditor",
     "12345:Role", "123456789012:", "123456789012:a:b", "x\n12345:"}

\* What the user has typed into the form when it is submitted.
FormInputs ==
    {MkForm(sub, "current", "", "", FALSE) :
        sub \in {"", "a", "mycompany", " my-co ", "-bad", "bad-", "my_co", LongSubdomain}}
    \cup {MkForm("mycompany", st, r, "", FALSE) :
            st \in {"current", "default", "account-map"},
            r \in {"", "ViewOnlyAccess", " Admin ", "bad role", LongRoleName}}
    \cup {MkForm("mycompany", "account-map", r, m, FALSE) :
            r \in {"", "ViewOnlyAccess"}, m \in MapTexts}
    \cup {MkForm("mycompany", st, "ViewOnlyAccess", m, ac) :
            st \in {"current", "default"}, m \in {"123456789012:ReadOnlyAccess", "12345:Role"},
            ac \in BOOLEAN}
    \cup {MkForm("-bad", "account-map", "bad role", "12345:Role", FALSE),
          MkForm("mycompany", "account-map", "bad role", "12345:Role", TRUE)}

\* What handleFormSubmit does with each of these forms.
SubmitOutcomes == [form \in FormInputs |-> SubmitOutcome(form)]

\* initializeOptions: the listeners are registered and loadSettings fills the
\* form from storage; ok is whether chrome.storage.sync.get resolves.
initializeOptions ==
    /\ ~optionsLoaded
    /\ \E ok \in BOOLEAN :
        /\ optionsLoaded' = TRUE
        /\ IF ok
           THEN /\ formValues' = FormOf(StorageGet(syncStorage, DEFAULT_CONFIG))
                /\ UNCHANGED statusMessage
           ELSE /\ statusMessage' = ErrorMessage("Failed to load settings")
                /\ UNCHANGED formValues
        /\ UNCHANGED <<syncStorage, fieldErrors, storageSetCall>>
        /\ UNCHANGED <<coreVars, popupVars, bgVars>>

\* handleFormSubmit with saveSettings, on the form as the user filled it; ok
\* is whether chrome.storage.sync.set resolves.
handleFormSubmit ==
    /\ optionsLoaded
    /\ \E form \in FormInputs, ok \in BOOLEAN :
        \E outcome \in {SubmitOutcomes[form]} :
            /\ formValues' = form
            /\ IF "field" \in DOMAIN outcome
               THEN /\ fieldErrors' = [NoFieldErrors EXCEPT ![outcome.field] = outcome.error]
                    /\ storageSetCall' = NotRequested
                    /\ UNCHANGED <<syncStorage, statusMessage>>
               ELSE /\ fieldErrors' = NoFieldErrors
                    /\ storageSetCall' = outcome.config
                    /\ IF ok
                       THEN /\ syncStorage' = outcome.config
                            /\ statusMessage' = SuccessMessage("Settings saved successfully")
                       ELSE /\ statusMessage' = ErrorMessage("Failed to save settings")
                            /\ UNCHANGED syncStorage
            /\ UNCHANGED optionsLoaded
            /\ UNCHANGED <<coreVars, popupVars, bgVars>>

\* handleReset with resetToDefaults, once the user confirmed; ok is whether
\* chrome.storage.sync.clear resolves.
handleReset ==
    /\ optionsLoaded
    /\ \E ok \in BOOLEAN :
        /\ IF ok
           THEN /\ syncStorage' = NoItems
                /\ formValues' = FormOf(StorageGet(NoItems, DEFAULT_CONFIG))
                /\ fieldErrors' = NoFieldErrors
                /\ statusMessage' = SuccessMessage("Settings reset to defaults")
           ELSE /\ statusMessage' = ErrorMessage("Failed to reset settings")
                /\ UNCHANGED <<syncStorage, formValues, fieldErrors>>
        /\ storageSetCall' = NotRequested
        /\ UNCHANGED optionsLoaded
        /\ UNCHANGED <<coreVars, popupVars, bgVars>>

NextOptions ==
    \/ initializeOptions
    \/ handleFormSubmit
    \/ handleReset

SpecOptions == Init /\ [][NextOptions]_vars

Next ==
    \/ CallCleanUrl
    \/ CallIsMultiAccountUrl
    \/ CallValidateAwsConsoleUrl
    \/ CallGenerateDeepLink
    \/ CallResolveRoleName
    \/ CallValidateSessionInfo
    \/ CallValidateExtensionConfig
    \/ CallExtractRegionFromUrl

Spec == Init /\ [][Next]_vars

(***************************************************************************)
(* Reading a result back                                                   *)
(***************************************************************************)
ConsoleFragmentPrefix == "/console?"

\* The parameters a deep link carries: the pairs of its fragment after
\* '/console?', read as a query string.
LinkParams[url \in STRING] ==
    ParseQuery[From(ParseURL[url].fragment, Len(ConsoleFragmentPrefix) + 1)]

ParamNames(params) == {params[i][1] : i \in 1..Len(params)}

ParamValue(params, name) == params[CHOOSE i \in 1..Len(params) : params[i][1] = name][2]

\* A value that is missing or empty: null, undefined or ''.
Missing(x) == x \in {Null, Undefined, Str("")}

\* The input of the cleanUrl call parses and its host contains the console domain.
CalledOnConsoleUrl ==
    /\ op = "cleanUrl"
    /\ IsStr(args.url)
    /\ ParseURL[args.url.v].ok
    /\ Includes[ParseURL[args.url.v].host, ConsoleDomain]

(***************************************************************************)
(* Properties of cleanUrl                                                  *)
(***************************************************************************)
\* C1: cleanUrl is idempotent: whenever cleanUrl(u) succeeds, cleanUrl on the
\* url it returned succeeds too and returns that same url.
C1_CleanUrlIdempotent ==
    (op = "cleanUrl" /\ ret.success) =>
        /\ cleanUrl(Str(ret.url)).success
        /\ cleanUrl(Str(ret.url)).url = ret.url

\* C2: host-only rewrite: for a URL whose parsed host contains
\* console.aws.amazon.com and matches ^(\d{12})-[a-z0-9]+\.(.+)$, cleanUrl
\* succeeds with type 'clean' and a url whose host is the captured remainder
\* and whose scheme, path, query string and fragment are those of the input.
C2_HostOnlyRewrite ==
    (CalledOnConsoleUrl /\ MatchMultiAccount[ParseURL[args.url.v].host].matched) =>
        /\ ret.success
        /\ ret.type = "clean"
        /\ ParseURL[ret.url].ok
        /\ ParseURL[ret.url].host = MatchMultiAccount[ParseURL[args.url.v].host].rest
        /\ ParseURL[ret.url].scheme = ParseURL[args.url.v].scheme
        /\ ParseURL[ret.url].path = ParseURL[args.url.v].path
        /\ ParseURL[ret.url].hasQuery = ParseURL[args.url.v].hasQuery
        /\ ParseURL[ret.url].query = ParseURL[args.url.v].query
        /\ ParseURL[ret.url].hasFragment = ParseURL[args.url.v].hasFragment
        /\ ParseURL[ret.url].fragment = ParseURL[args.url.v].fragment

\* A multi-account URL with a path, a query string and a fragment was cleaned.
C2_Witness ==
    /\ op = "cleanUrl"
    /\ args.url = Str("https://" \o AccountPrefix \o "eu-west-1.console.aws.amazon.com/ec2/v2/home?region=us-east-1#instances")
    /\ ret.success
    /\ ret.url = "https://eu-west-1.console.aws.amazon.com/ec2/v2/home?region=us-east-1#instances"

\* C3: for a URL that parses, whose host contains console.aws.amazon.com and
\* does not match the multi-account pattern, cleanUrl succeeds with url equal
\* to the input string unchanged.
C3_UnchangedWithoutPrefix ==
    (CalledOnConsoleUrl /\ ~MatchMultiAccount[ParseURL[args.url.v].host].matched) =>
        /\ ret.success
        /\ ret.url = args.url.v

\* C4: for a valid AWS Console URL u, isMultiAccountUrl(u) is true if and only
\* if cleanUrl(u).url differs from u.
C4_DetectionRoundTrip ==
    (op = "cleanUrl" /\ validateAwsConsoleUrl(args.url)) =>
        (isMultiAccountUrl(args.url) <=> (ret.url # args.url.v))

\* C10: cleanUrl fails in exactly three cases, decided in this order, each with
\* type 'clean' and no url: the input is null, not a string, empty or
\* whitespace-only ('Invalid URL provided'); it does not parse as an absolute
\* URL ('Invalid URL format'); its host does not contain
\* console.aws.amazon.com ('Not an AWS Console URL').  Every other input
\* succeeds, whatever its scheme.
C10_CleanUrlFailures ==
    (op = "cleanUrl") =>
        IF ~IsStr(args.url) \/ Trim[args.url.v] = ""
        THEN ret = [success |-> FALSE, error |-> "Invalid URL provided", type |-> "clean"]
        ELSE IF ~ParseURL[args.url.v].ok
        THEN ret = [success |-> FALSE, error |-> "Invalid URL format", type |-> "clean"]
        ELSE IF ~Includes[ParseURL[args.url.v].host, ConsoleDomain]
        THEN ret = [success |-> FALSE, error |-> "Not an AWS Console URL", type |-> "clean"]
        ELSE ret.success /\ ret.type = "clean" /\ "url" \in DOMAIN ret

\* An http:// console URL was accepted.
C10_Witness ==
    /\ op = "cleanUrl"
    /\ args.url = Str("http://console.aws.amazon.com/")
    /\ ret.success
    /\ ret.url = "http://console.aws.amazon.com/"

(***************************************************************************)
(* Properties of generateDeepLink and of role resolution                   *)
(***************************************************************************)
\* C5: deep link well-formedness: for a successful generateDeepLink result the
\* url parses, its host is '<trimmed config.ssoSubdomain>.awsapps.com', its
\* path is /start/, and its fragment is '/console?' followed by a query string
\* with exactly the keys account_id, role_name and destination, whose decoded
\* values are sessionInfo.accountId, sessionInfo.roleName and
\* cleanUrl(sessionInfo.currentUrl).url.
C5_DeepLinkWellFormed ==
    (op = "generateDeepLink" /\ ret.success) =>
        /\ ParseURL[ret.url].ok
        /\ ParseURL[ret.url].host = Trim[args.config.ssoSubdomain.v] \o ".awsapps.com"
        /\ ParseURL[ret.url].path = "/start/"
        /\ StartsWith(ParseURL[ret.url].fragment, ConsoleFragmentPrefix)
        /\ Len(LinkParams[ret.url]) = 3
        /\ ParamNames(LinkParams[ret.url]) = {"account_id", "role_name", "destination"}
        /\ ParamValue(LinkParams[ret.url], "account_id") = args.sessionInfo.accountId.v
        /\ ParamValue(LinkParams[ret.url], "role_name") = args.sessionInfo.roleName.v
        /\ ParamValue(LinkParams[ret.url], "destination") = cleanUrl(args.sessionInfo.currentUrl).url

\* The role a deep link carries.
RoleNameOf(url) == ParamValue(LinkParams[url], "role_name")

\* The popup shows a deep link: its role_name is the resolved role.
PopupLinkCarriesResolvedRole ==
    Includes[resultUrl, ".awsapps.com/start/"] =>
        RoleNameOf(resultUrl) = JSToString(resolveRoleName(currentSessionInfo, popupConfig))

\* The background worker answers a 'generateDeepLink' message with a deep
\* link: its role_name is the resolved role.
BackgroundLinkCarriesResolvedRole ==
    (/\ bgPc = "resolved"
     /\ bgMessage.t = "obj"
     /\ bgMessage.action = Str("generateDeepLink")
     /\ "success" \in DOMAIN bgResult
     /\ bgResult.success) =>
        RoleNameOf(bgResult.url) = JSToString(resolveRoleName(bgMessage.sessionInfo, bgMessage.config))

\* C6: every deep link the extension produces, through the popup's Generate
\* Deep Link button or through the background worker's 'generateDeepLink'
\* message action, carries a role_name equal to resolveRoleName(sessionInfo,
\* config) for the session and config it was generated from.
C6_LinkCarriesResolvedRole ==
    PopupLinkCarriesResolvedRole /\ BackgroundLinkCarriesResolvedRole

\* C7: strategy 'account-map': when sessionInfo.accountId is a key of
\* config.accountRoleMap, resolveRoleName returns the mapped value, the empty
\* string included; when the key is absent it returns defaultRoleName if that
\* is non-empty and sessionInfo.roleName otherwise.
C7_AccountMapFallback ==
    (op = "resolveRoleName" /\ args.config.roleSelectionStrategy = Str("account-map")) =>
        ret = IF args.sessionInfo.accountId.v \in DOMAIN args.config.accountRoleMap.m
              THEN args.config.accountRoleMap.m[args.sessionInfo.accountId.v]
              ELSE IF args.config.defaultRoleName # Str("")
              THEN args.config.defaultRoleName
              ELSE args.sessionInfo.roleName

\* C8: outside 'account-map': strategy 'default' returns config.defaultRoleName
\* when it is non-empty and sessionInfo.roleName when it is the empty string;
\* strategy 'current', a missing strategy and an unrecognized strategy return
\* sessionInfo.roleName, whatever defaultRoleName and accountRoleMap are.
C8_DefaultAndCurrent ==
    (op = "resolveRoleName" /\ args.config.roleSelectionStrategy # Str("account-map")) =>
        ret = IF /\ args.config.roleSelectionStrategy = Str("default")
                 /\ args.config.defaultRoleName # Str("")
              THEN args.config.defaultRoleName
              ELSE args.sessionInfo.roleName

\* Strategy 'default' with an empty defaultRoleName fell back to the session's
\* role, although the account has a mapped role.
C8_Witness ==
    /\ op = "resolveRoleName"
    /\ args.config.roleSelectionStrategy = Str("default")
    /\ args.config.defaultRoleName = Str("")
    /\ args.config.accountRoleMap = MapOf("123456789012" :> Str("ReadOnlyAccess"))
    /\ args.sessionInfo.accountId = Str("123456789012")
    /\ args.sessionInfo.roleName = Str("PlatformAccess")
    /\ ret = Str("PlatformAccess")

\* C9: generateDeepLink reports the first precondition that fails, in this
\* order: config missing or ssoSubdomain empty after trimming ('AWS SSO
\* subdomain not configured'); sessionInfo missing or one of accountId,
\* roleName, currentUrl empty ('Missing session information');
\* cleanUrl(currentUrl) failing ('Failed to clean destination URL').  Each such
\* result has type 'deeplink' and no url.
C9_PreconditionOrder ==
    (op = "generateDeepLink") =>
        IF \/ args.config \in {Null, Undefined}
           \/ args.config.ssoSubdomain = Undefined
           \/ Trim[args.config.ssoSubdomain.v] = ""
        THEN ret = [success |-> FALSE, error |-> "AWS SSO subdomain not configured", type |-> "deeplink"]
        ELSE IF \/ args.sessionInfo \in {Null, Undefined}
                \/ Missing(args.sessionInfo.accountId)
                \/ Missing(args.sessionInfo.roleName)
                \/ Missing(args.sessionInfo.currentUrl)
        THEN ret = [success |-> FALSE, error |-> "Missing session information", type |-> "deeplink"]
        ELSE IF ~cleanUrl(args.sessionInfo.currentUrl).success
        THEN ret = [success |-> FALSE, error |-> "Failed to clean destination URL", type |-> "deeplink"]
        ELSE ret.type = "deeplink"

\* Both the subdomain and the session were missing: the error is the
\* subdomain's.
C9_Witness ==
    /\ op = "generateDeepLink"
    /\ args.sessionInfo = Null
    /\ args.config.t = "obj"
    /\ args.config.ssoSubdomain = Str("   ")
    /\ ret.error = "AWS SSO subdomain not configured"

(***************************************************************************)
(* Properties of the core functions as a whole                             *)
(***************************************************************************)
\* C11: no core function ever throws: for every argument value, null,
\* undefined, numbers, objects and objects with fields of the wrong type
\* included, cleanUrl and generateDeepLink return a UrlResult,
\* isMultiAccountUrl and validateAwsConsoleUrl a boolean, extractRegionFromUrl
\* a string or null, validateSessionInfo and validateExtensionConfig a
\* {valid, errors} value.
C11_NeverThrows ==
    /\ op \in {"cleanUrl", "generateDeepLink"} => "success" \in DOMAIN ret
    /\ op \in {"isMultiAccountUrl", "validateAwsConsoleUrl"} => ret \in BOOLEAN
    /\ op = "extractRegionFromUrl" => ret.t \in {"str", "null"}
    /\ op \in {"validateSessionInfo", "validateExtensionConfig"} =>
           DOMAIN ret = {"valid", "errors"}

\* The host as the input text s spells it: what stands between the scheme,
\* with its slashes, and the first "/", "?", "#" or ":" after it.
RawHostOf[rest \in STRING] == SubSeq(rest, 1, FirstIn[rest, {"/", "?", "#", ":"}, 1] - 1)

RawHost[s \in STRING] == RawHostOf[SkipSlashes[From(s, FirstIn[s, {":"}, 1] + 1)]]

\* The first label of host is 12 digits, a hyphen and a run of letters and
\* digits of length run with an uppercase letter in it.
UppercaseSuffixAt[host \in STRING, run \in Int] ==
    /\ Len(host) > AccountIdLength + 2
    /\ AllIn[SubSeq(host, 1, AccountIdLength), DigitSet]
    /\ CharAt(host, AccountIdLength + 1) = "-"
    /\ run >= 1
    /\ AccountIdLength + 2 + run <= Len(host)
    /\ CharAt(host, AccountIdLength + 2 + run) = "."
    /\ \E i \in (AccountIdLength + 2)..(AccountIdLength + 1 + run) : CharAt(host, i) \in UpperSet

UppercaseSuffix[host \in STRING] ==
    UppercaseSuffixAt[host, RunLength[host, AlnumSet, AccountIdLength + 2]]

\* C12: suffix case sensitivity of cleanUrl: when the first host label of the
\* input is 12 digits, a hyphen and a suffix with an uppercase letter in it,
\* cleanUrl treats the URL as not multi-account and returns success with the
\* URL unchanged, the prefix still in place.
C12_UppercaseSuffixPassedThrough ==
    (op = "cleanUrl" /\ IsStr(args.url) /\ UppercaseSuffix[RawHost[args.url.v]]) =>
        /\ ret.success
        /\ ret.url = args.url.v

\* C13: UrlResult shape: every value cleanUrl or generateDeepLink returns has
\* url present if and only if success is true, error present if and only if
\* success is false, and type 'clean' for cleanUrl and 'deeplink' for
\* generateDeepLink, on every path, the catch paths included.
C13_UrlResultShape ==
    (op \in {"cleanUrl", "generateDeepLink"}) =>
        /\ ("url" \in DOMAIN ret) <=> ret.success
        /\ ("error" \in DOMAIN ret) <=> ~ret.success
        /\ ret.type = (IF op = "cleanUrl" THEN "clean" ELSE "deeplink")

\* generateDeepLink returned from its catch: the subdomain made `new URL` throw.
C13_Witness ==
    /\ op = "generateDeepLink"
    /\ args.config.t = "obj"
    /\ args.config.ssoSubdomain = Str("my co")
    /\ ~ret.success
    /\ ret.error = "Failed to generate deep link"

\* C14: a successful deep link comes only from a session whose currentUrl a
\* standalone cleanUrl call accepts, and the destination it embeds is the url
\* of that call.
C14_DeepLinkFromCleanableUrl ==
    (op = "generateDeepLink" /\ ret.success) =>
        /\ cleanUrl(args.sessionInfo.currentUrl).success
        /\ ParamValue(LinkParams[ret.url], "destination") = cleanUrl(args.sessionInfo.currentUrl).url

\* A deep link was made from a multi-account URL: its destination is the
\* cleaned URL, not the session's.
C14_Witness ==
    /\ op = "generateDeepLink"
    /\ ret.success
    /\ args.sessionInfo.currentUrl = Str(MultiAccountUrl)
    /\ ParamValue(LinkParams[ret.url], "destination")
           = "https://eu-west-1.console.aws.amazon.com/cloudwatch/home?region=eu-west-1"

(***************************************************************************)
(* Properties of the validators                                            *)
(***************************************************************************)
\* The argument of the validator called.
ValidatedArgument == IF op = "validateSessionInfo" THEN args.sessionInfo ELSE args.config

MissingError == IF op = "validateSessionInfo" THEN "Session information is missing"
                ELSE "Configuration is missing"

\* C15: validateSessionInfo and validateExtensionConfig short-circuit on null
\* and on every input that is not an object, a number or a non-empty string
\* included: the result is valid false with exactly one error, the 'missing'
\* one, and no field-level error.
C15_NonObjectShortCircuits ==
    (op \in {"validateSessionInfo", "validateExtensionConfig"} /\ ValidatedArgument.t # "obj") =>
        /\ ret.valid = FALSE
        /\ ret.errors = <<MissingError>>

\* The errors the three checks of validateSessionInfo call for on the object
\* session: accountId matches ^\d{6,12}$, roleName is non-empty after
\* trimming, currentUrl satisfies validateAwsConsoleUrl.
ExpectedSessionErrors(session) ==
    (IF \E n \in 6..12 : /\ Len(JSToString(Prop(session, "accountId"))) = n
                         /\ Prop(session, "accountId").t \in {"str", "num"}
                         /\ \A i \in 1..n : CharAt(JSToString(Prop(session, "accountId")), i) \in DigitSet
     THEN <<>> ELSE <<"Invalid account ID">>)
    \o (IF \/ Prop(session, "roleName").t \in {"undef", "null"}
           \/ (IsStr(Prop(session, "roleName")) /\ Trim[Prop(session, "roleName").v] = "")
        THEN <<"Invalid role name">> ELSE <<>>)
    \o (IF validateAwsConsoleUrl(Prop(session, "currentUrl"))
        THEN <<>> ELSE <<"Invalid current URL">>)

\* C16: validateSessionInfo collects every applicable error: for an object
\* input, errors holds one entry for each failing check among accountId,
\* roleName and currentUrl, in that order, and valid is true exactly when
\* errors is empty.
C16_CollectsEveryError ==
    (op = "validateSessionInfo" /\ args.sessionInfo.t = "obj") =>
        /\ DOMAIN ret = {"valid", "errors"}
        /\ ret.errors = ExpectedSessionErrors(args.sessionInfo)
        /\ ret.valid = (ret.errors = <<>>)

(***************************************************************************)
(* Properties of the URL predicates and of extractRegionFromUrl           *)
(***************************************************************************)
\* host begins with 12 digits, a hyphen, one or more lowercase letters or
\* digits, and a dot.
BeginsWithAccountLabel(host) ==
    \E k \in 1..(Len(host) - AccountIdLength - 2) :
        /\ \A i \in 1..AccountIdLength : CharAt(host, i) \in DigitSet
        /\ CharAt(host, AccountIdLength + 1) = "-"
        /\ \A i \in 1..k : CharAt(host, AccountIdLength + 1 + i) \in LowerSet \cup DigitSet
        /\ CharAt(host, AccountIdLength + 2 + k) = "."

C18_ValidateAwsConsoleUrl ==
    (op = "validateAwsConsoleUrl") =>
        ret = (/\ IsStr(args.url)
               /\ ParseURL[args.url.v].ok
               /\ ParseURL[args.url.v].scheme = "https"
               /\ \E i \in 1..Len(ParseURL[args.url.v].host) :
                      StartsWith(From(ParseURL[args.url.v].host, i), ConsoleDomain))

\* https://fake-console.aws.amazon.com is accepted.
C18_Witness ==
    /\ op = "validateAwsConsoleUrl"
    /\ args.url = Str("https://fake-console.aws.amazon.com/")
    /\ ret = TRUE

\* s reads as a region: two lowercase letters, a hyphen, one or more lowercase
\* letters, a hyphen, one or more digits (^[a-z]{2}-[a-z]+-\d+$).
IsRegionText(s) ==
    \E a \in 1..Len(s), b \in 1..Len(s) :
        /\ Len(s) = 4 + a + b
        /\ CharAt(s, 1) \in LowerSet /\ CharAt(s, 2) \in LowerSet
        /\ CharAt(s, 3) = "-"
        /\ \A i \in 4..(3 + a) : CharAt(s, i) \in LowerSet
        /\ CharAt(s, 4 + a) = "-"
        /\ \A i \in (5 + a)..Len(s) : CharAt(s, i) \in DigitSet

\* The regions host holds in front of '.console.aws.amazon.com'.
HostRegions(host) ==
    {SubSeq(host, i, j) : <<i, j>> \in
        {ij \in (1..Len(host)) \X (1..Len(host)) :
            /\ ij[1] < ij[2]
            /\ StartsWith(From(host, ij[2] + 1), RegionSuffix)
            /\ IsRegionText(SubSeq(host, ij[1], ij[2]))}}

\* The region query parameter of the parsed URL u.
RegionParamOf(u) == SearchGet(ParseQuery[u.query], "region")

\* C19: extractRegionFromUrl tries the host before the query: when the host
\* contains '<region>.console.aws.amazon.com' it returns that region, even
\* when the query carries another valid region; otherwise it returns the
\* region query parameter when that matches ^[a-z]{2}-[a-z]+-\d+$; otherwise
\* null.  Every result other than null matches ^[a-z]{2}-[a-z]+-\d+$.
C19_RegionFromHostThenQuery ==
    (op = "extractRegionFromUrl") =>
        /\ IF ~IsStr(args.url) \/ ~ParseURL[JSToString(args.url)].ok
           THEN ret = Null
           ELSE IF HostRegions(ParseURL[args.url.v].host) # {}
           THEN ret.t = "str" /\ ret.v \in HostRegions(ParseURL[args.url.v].host)
           ELSE IF /\ RegionParamOf(ParseURL[args.url.v]) # Null
                   /\ IsRegionText(RegionParamOf(ParseURL[args.url.v]).v)
           THEN ret = RegionParamOf(ParseURL[args.url.v])
           ELSE ret = Null
        /\ ret # Null => IsRegionText(ret.v)

\* The host's region won over another valid region in the query.
C19_Witness ==
    /\ op = "extractRegionFromUrl"
    /\ args.url = Str("https://eu-west-1.console.aws.amazon.com/cloudwatch?region=us-west-2")
    /\ ret = Str("eu-west-1")

(***************************************************************************)
(* generateDeepLink and the format of its inputs                           *)
(***************************************************************************)
\* generateDeepLink was called with a config whose trimmed ssoSubdomain is
\* non-empty, a currentUrl that cleanUrl accepts, and a non-empty accountId
\* and roleName.
CalledWithCompleteInput ==
    /\ op = "generateDeepLink"
    /\ args.config.t = "obj"
    /\ IsStr(args.config.ssoSubdomain)
    /\ Trim[args.config.ssoSubdomain.v] # ""
    /\ args.sessionInfo.t = "obj"
    /\ ~Missing(args.sessionInfo.accountId)
    /\ ~Missing(args.sessionInfo.roleName)
    /\ cleanUrl(args.sessionInfo.currentUrl).success

\* C20, as stated: generateDeepLink performs no format validation: given a
\* config whose trimmed ssoSubdomain is non-empty and a currentUrl that cleanUrl
\* accepts, it succeeds for every non-empty accountId and roleName.
C20_NoFormatValidation == CalledWithCompleteInput => ret.success

\* C20, amended: generateDeepLink succeeds on such input, whatever the format
\* of accountId and roleName, provided the trimmed ssoSubdomain makes
\* https://<subdomain>.awsapps.com/start/ a URL that parses.
C20_NoFormatValidationOnParsableBase ==
    (/\ CalledWithCompleteInput
     /\ ParseURL["https://" \o Trim[args.config.ssoSubdomain.v] \o ".awsapps.com/start/"].ok) =>
        ret.success

\* A five-digit accountId, a roleName with '&' in it and a subdomain ending in
\* a hyphen made a deep link.
C20_Witness ==
    /\ op = "generateDeepLink"
    /\ args.sessionInfo.t = "obj"
    /\ args.sessionInfo.accountId = Str("12345")
    /\ args.sessionInfo.roleName = Str("Read+Only=a&b")
    /\ args.config.t = "obj"
    /\ args.config.ssoSubdomain = Str("invalid-subdomain-")
    /\ ret.success

(***************************************************************************)
(* The background listener                                                 *)
(***************************************************************************)
\* The listener ran for a message.
MessageReceived == bgReturned # Undefined

\* A message is being handled: sendResponse has not been called for it yet.
MessagePending == bgPc # "idle"

AnsweredAtMostOnce ==
    /\ bgResponses <= 1
    /\ MessagePending => bgResponses = 0
    /\ (MessageReceived /\ ~MessagePending) => (bgResponses = 1 /\ bgSent = bgResult)
    /\ bgPc = "resolved" => "threw" \notin DOMAIN bgResult
    /\ MessageReceived => bgReturned = Bool(TRUE)

\* C21: the background listener answers every message exactly once.  For
\* every message and every outcome of chrome.tabs.get, chrome.tabs.sendMessage,
\* cleanUrl and generateDeepLink, handleMessage resolves and never rejects,
\* the listener returns true, sendResponse is never called a second time, and
\* it is eventually called with the value handleMessage resolved with.
C21_AnswersExactlyOnce ==
    /\ []AnsweredAtMostOnce
    /\ MessagePending ~> (~MessagePending /\ bgResponses = 1)

\* A rejected chrome.tabs.sendMessage whose reason is not an Error has been
\* answered, once.
C21_Witness ==
    /\ ~MessagePending
    /\ bgResponses = 1
    /\ Len(bgCalls) = 2
    /\ bgSent = ExtensionError("session", "Failed to communicate with content script")

\* The message being handled asks for the content script.
TabAction ==
    /\ MessageReceived
    /\ bgMessage.t = "obj"
    /\ bgMessage.action \in {Str("getSessionInfo"), Str("getCurrentUrl")}

\* The tab id the message designates: its own tabId, else the sender's tab.
DesignatedTabId ==
    IF Truthy(MessageField(bgMessage, "tabId")) THEN bgMessage.tabId ELSE bgSender

\* handleMessage has resolved for the message being handled.
Resolved == MessageReceived /\ bgPc \in {"resolved", "idle"}

\* chrome.tabs.get resolved with a tab that has an AWS Console URL.
TabValidated ==
    /\ bgTab.t = "obj"
    /\ Truthy(bgTab.url)
    /\ validateAwsConsoleUrl(bgTab.url)

PermissionError == "type" \in DOMAIN bgResult /\ bgResult.type = "permission"

\* C22: for 'getSessionInfo' and 'getCurrentUrl' the worker resolves the tab
\* id (message.tabId before sender.tab.id), validates the tab, then forwards.
\* Without a tab id it answers a 'permission' error and makes no call; for a
\* tab without URL, with a URL that is not an AWS Console URL, or a rejected
\* chrome.tabs.get it answers a 'permission' error and chrome.tabs.sendMessage
\* is not called; chrome.tabs.sendMessage is called only after
\* chrome.tabs.get, for a validated tab, with the same tab id and action.
C22_ResolveValidateForward ==
    TabAction =>
        IF ~Truthy(DesignatedTabId)
        THEN /\ bgCalls = <<>>
             /\ Resolved
             /\ PermissionError
        ELSE /\ Len(bgCalls) \in {1, 2}
             /\ bgCalls[1] = [fn |-> "chrome.tabs.get", args |-> <<DesignatedTabId>>]
             /\ (bgTab # Undefined /\ ~TabValidated) =>
                    (Len(bgCalls) = 1 /\ Resolved /\ PermissionError)
             /\ Len(bgCalls) = 2 =>
                    /\ TabValidated
                    /\ bgCalls[2] = [fn |-> "chrome.tabs.sendMessage",
                                     args |-> <<DesignatedTabId,
                                                Obj([action |-> bgMessage.action])>>]

\* The content script was messaged for the tab the message names, although
\* the sender has a tab of its own.
C22_Witness ==
    /\ TabAction
    /\ MessageField(bgMessage, "tabId") = Num("7")
    /\ bgSender = Num("3")
    /\ Len(bgCalls) = 2
    /\ bgCalls[2].args[1] = Num("7")

\* The message being handled is an object whose action is the given one.
ActionIs(name) == MessageReceived /\ bgMessage.t = "obj" /\ bgMessage.action = Str(name)

KnownActions == {Str("cleanUrl"), Str("generateDeepLink"), Str("getSessionInfo"),
                 Str("getCurrentUrl")}

\* handleMessage resolved with the given value and called nothing.
RejectedWith(error) == Resolved /\ bgResult = error /\ bgCalls = <<>>

\* C23: incomplete processing requests are rejected before any work.  A
\* 'cleanUrl' message whose url is missing or empty resolves with
\* {type 'url', 'URL is required for cleaning'} and cleanUrl is not invoked;
\* a 'generateDeepLink' message without sessionInfo or without config resolves
\* with {type 'url', 'Session info and config are required'} and
\* generateDeepLink is not invoked; a message with any other action resolves
\* with {type 'permission', 'Unknown message action'} and no Chrome API call.
C23_IncompleteRequestsRejected ==
    /\ (ActionIs("cleanUrl") /\ Missing(MessageField(bgMessage, "url"))) =>
           RejectedWith([type |-> "url", message |-> "URL is required for cleaning"])
    /\ (/\ ActionIs("generateDeepLink")
        /\ \/ Missing(MessageField(bgMessage, "sessionInfo"))
           \/ Missing(MessageField(bgMessage, "config"))) =>
           RejectedWith([type |-> "url", message |-> "Session info and config are required"])
    /\ (MessageReceived /\ bgMessage.t = "obj" /\ bgMessage.action \notin KnownActions) =>
           RejectedWith([type |-> "permission", message |-> "Unknown message action"])

\* A 'cleanUrl' message with an empty url has been answered.
C23_Witness ==
    /\ ActionIs("cleanUrl")
    /\ MessageField(bgMessage, "url") = Str("")
    /\ bgPc = "idle"
    /\ bgSent = [type |-> "url", message |-> "URL is required for cleaning"]

(***************************************************************************)
(* Popup initialization                                                    *)
(***************************************************************************)
\* initializePopup ran.
PopupInitialized == popupTab # NotRequested

\* The active tab exists, has an id, and a URL whose host contains the
\* console domain.
ActiveTabUsable ==
    /\ popupTab.t = "obj"
    /\ Truthy(popupTab.id)
    /\ IsStr(popupTab.url)
    /\ ParseURL[popupTab.url.v].ok
    /\ Includes[Hostname(ParseURL[popupTab.url.v]), ConsoleDomain]

\* The content script answered with a successful, well-formed session.
SessionAnswerUsable ==
    /\ popupResponse.t = "obj"
    /\ popupResponse.success = Bool(TRUE)
    /\ popupResponse.data.t = "obj"
    /\ TestAccountIdFormat(JSToString(popupResponse.data.accountId))
    /\ IsStr(popupResponse.data.roleName)
    /\ Trim[popupResponse.data.roleName.v] # ""
    /\ IsStr(popupResponse.data.currentUrl)
    /\ Includes[popupResponse.data.currentUrl.v, ConsoleDomain]

\* The stored items of an empty storage.
EmptyStorage ==
    Obj([ssoSubdomain |-> Undefined, defaultAction |-> Undefined,
         showNotifications |-> Undefined, autoClosePopup |-> Undefined,
         roleSelectionStrategy |-> Undefined, defaultRoleName |-> Undefined,
         accountRoleMap |-> Undefined])

\* C24: popup initialization gates the actions.  The click handlers are
\* registered only when the active tab exists, has an id and a URL whose host
\* contains console.aws.amazon.com, and the content script returned a
\* successful session with an accountId of 6 to 12 digits, a non-blank
\* roleName and a currentUrl containing console.aws.amazon.com.  Otherwise the
\* buttons are disabled, no handler is registered, currentSessionInfo stays
\* null and no URL result appears.  A rejected configuration read alone does
\* not stop initialization: the handlers are registered and the popup holds
\* the default configuration.
C24_InitializationGatesActions ==
    /\ listeners => (ActiveTabUsable /\ SessionAnswerUsable /\ currentSessionInfo # Null)
    /\ (PopupInitialized /\ ~(ActiveTabUsable /\ SessionAnswerUsable)) =>
           /\ buttonsDisabled
           /\ ~listeners
           /\ currentSessionInfo = Null
           /\ resultUrl = ""
           /\ resultSection = "none"
           /\ clipboard = ""
    /\ (PopupInitialized /\ ActiveTabUsable /\ SessionAnswerUsable /\ popupStored = Null) =>
           /\ listeners
           /\ ~buttonsDisabled
           /\ popupConfig = loadConfiguration(EmptyStorage)

\* The configuration read was rejected and the handlers are registered.
C24_Witness ==
    /\ listeners
    /\ popupStored = Null
    /\ popupConfig.roleSelectionStrategy = Str("current")
    /\ currentSessionInfo.accountId = Str("123456789012")

\* A tab that is not an AWS Console page: the popup ends disabled.
C24_DisabledWitness ==
    /\ PopupInitialized
    /\ popupTab.t = "obj"
    /\ popupTab.url = Str("https://google.com/search")
    /\ buttonsDisabled

(***************************************************************************)
(* The options page                                                        *)
(***************************************************************************)
\* The last options handler called chrome.storage.sync.set.
SetCalled == storageSetCall.t = "obj"

\* 2 to 63 characters of [a-zA-Z0-9-], no hyphen first or last.
SubdomainWellFormed(text) ==
    /\ Len(text) >= 2
    /\ Len(text) <= 63
    /\ AllIn[text, AlnumSet \cup {"-"}]
    /\ CharAt(text, 1) # "-"
    /\ CharAt(text, Len(text)) # "-"

\* At most 64 characters of [a-zA-Z0-9+=,.@_-].
RoleNameWellFormed(text) ==
    /\ Len(text) <= 64
    /\ AllIn[text, AlnumSet \cup {"+", "=", ",", ".", "@", "_", "-"}]

\* '<12 digits>:<non-empty role>', white space around either part aside.
MappingLineWellFormed(line) ==
    /\ Len(SplitOn[Trim[line], ":"]) = 2
    /\ Len(Trim[SplitOn[Trim[line], ":"][1]]) = 12
    /\ AllIn[Trim[SplitOn[Trim[line], ":"][1]], DigitSet]
    /\ Trim[SplitOn[Trim[line], ":"][2]] # ""

MappingWellFormed(text) ==
    \A i \in 1..Len(SplitOn[text, "\n"]) :
        Trim[SplitOn[text, "\n"][i]] = "" \/ MappingLineWellFormed(SplitOn[text, "\n"][i])

SubdomainFieldValid(form) == SubdomainWellFormed(Trim[form.ssoSubdomain])

RoleFieldValid(form) ==
    (Trim[form.defaultRoleName] # "" /\ form.roleSelectionStrategy \in {"default", "account-map"})
        => RoleNameWellFormed(Trim[form.defaultRoleName])

MappingFieldValid(form) ==
    form.roleSelectionStrategy = "account-map" => MappingWellFormed(form.accountRoleMap)

WholeFormValid(form) ==
    SubdomainFieldValid(form) /\ RoleFieldValid(form) /\ MappingFieldValid(form)

\* The first field, in the order of the form, that does not validate.
FirstFailingField(form) ==
    IF ~SubdomainFieldValid(form) THEN "ssoSubdomain"
    ELSE IF ~RoleFieldValid(form) THEN "defaultRoleName"
    ELSE "accountRoleMap"

\* The first error the field's validator reports.
FirstErrorOf(form, field) ==
    CASE field = "ssoSubdomain" -> validateSubdomain(form.ssoSubdomain).errors[1]
      [] field = "defaultRoleName" -> validateRoleName(form.defaultRoleName).errors[1]
      [] field = "accountRoleMap" -> parseAccountRoleMap(Trim[form.accountRoleMap]).errors[1]

ErrorsShown == {f \in DOMAIN fieldErrors : fieldErrors[f] # ""}

OptionsWriteOnlyValidForms ==
    /\ SetCalled => WholeFormValid(formValues)
    /\ ErrorsShown # {} =>
           /\ ~WholeFormValid(formValues)
           /\ ~SetCalled
           /\ ErrorsShown = {FirstFailingField(formValues)}
           /\ fieldErrors[FirstFailingField(formValues)] =
                  FirstErrorOf(formValues, FirstFailingField(formValues))

\* C25: the options page writes to storage only when the whole form
\* validates.  chrome.storage.sync.set is called only for a trimmed subdomain
\* of 2-63 characters of [a-zA-Z0-9-] without leading or trailing hyphen, a
\* default role name (when non-empty and used by the strategy) of at most 64
\* characters of [a-zA-Z0-9+=,.@_-], and, for 'account-map', mapping lines that
\* are blank or '<12 digits>:<non-empty role>'.  A step that ends with a field
\* error shown leaves the stored settings unchanged, and the error shown is
\* the first error of the first failing field, alone.
C25_WritesOnlyValidForms ==
    /\ []OptionsWriteOnlyValidForms
    /\ [][ErrorsShown' # {} => syncStorage' = syncStorage]_vars

\* A form with a multi-line mapping was saved.
C25_Witness ==
    /\ SetCalled
    /\ syncStorage = storageSetCall
    /\ formValues.roleSelectionStrategy = "account-map"
    /\ DOMAIN syncStorage.accountRoleMap.m = {"123456789012", "999999999999"}
    /\ syncStorage.accountRoleMap.m["123456789012"] = Str("Auditor")

\* A submit was refused although settings were saved before: the error of
\* the mapping is shown and the saved settings are still there.
C25_RefusedWitness ==
    /\ fieldErrors.accountRoleMap = "Line 1: Invalid account ID (must be 12 digits)"
    /\ syncStorage.ssoSubdomain = Str("my-co")

StoredMapping ==
    IF syncStorage.accountRoleMap = Undefined THEN {} ELSE DOMAIN syncStorage.accountRoleMap.m

\* C29: a save with a strategy other than 'account-map' stores an empty
\* accountRoleMap, whatever the textarea contains and whatever was stored
\* before; storage holds a non-empty mapping only with the strategy
\* 'account-map'.
C29_MappingSavedOnlyForAccountMap ==
    /\ (SetCalled /\ formValues.roleSelectionStrategy # "account-map") =>
           DOMAIN storageSetCall.accountRoleMap.m = {}
    /\ (SetCalled /\ statusMessage = SuccessMessage("Settings saved successfully")) =>
           syncStorage = storageSetCall
    /\ StoredMapping # {} => syncStorage.roleSelectionStrategy = Str("account-map")

\* Settings were saved with the strategy 'default' while the textarea held a
\* valid mapping: the stored mapping is empty.
C29_Witness ==
    /\ SetCalled
    /\ syncStorage = storageSetCall
    /\ formValues.roleSelectionStrategy = "default"
    /\ formValues.accountRoleMap = "123456789012:ReadOnlyAccess"
    /\ StoredMapping = {}

(***************************************************************************)
(* What the validators and cleanUrl guarantee                              *)
(***************************************************************************)
\* C26: every successful cleanUrl result is still an AWS Console URL: the
\* host of the returned url contains console.aws.amazon.com, so cleanUrl
\* accepts its own result.
C26_ResultIsConsoleUrl ==
    (op = "cleanUrl" /\ ret.success) =>
        /\ ParseURL[ret.url].ok
        /\ Includes[Hostname(ParseURL[ret.url]), ConsoleDomain]
        /\ cleanUrl(Str(ret.url)).success

\* The validators accept the arguments of the generateDeepLink call.
ValidatorsAccept ==
    /\ op = "generateDeepLink"
    /\ "valid" \in DOMAIN validateSessionInfo(args.sessionInfo)
    /\ validateSessionInfo(args.sessionInfo).valid
    /\ validateExtensionConfig(args.config).valid

\* C27: the validators are sufficient for deep link generation: when
\* validateSessionInfo(sessionInfo).valid and validateExtensionConfig(config).valid
\* are both true, generateDeepLink(sessionInfo, config) succeeds.
C27_ValidatorsSufficient == ValidatorsAccept => ret.success

(***************************************************************************)
(* Clicks in the popup                                                     *)
(***************************************************************************)
\* The session and the configuration initializePopup loaded.
LoadedSession == loadSessionInfo(popupResponse)
LoadedConfig == loadConfiguration(popupStored)

\* What a single click on each button gives for them.
SingleClean == cleanUrl(LoadedSession.currentUrl)
SingleDeepLink == PopupDeepLink(LoadedSession, LoadedConfig)

\* C28: generating a deep link leaves the popup's state unchanged: after any
\* sequence of clicks currentSessionInfo (its roleName included) and config
\* are the values initialization loaded, and what a click on Clean URL or on
\* Generate Deep Link reports, the url or the error, is what a single click
\* reports.
C28_ClicksLeaveStateUnchanged ==
    listeners =>
        /\ currentSessionInfo = LoadedSession
        /\ popupConfig = LoadedConfig
        /\ StartsWith(message.text, "Clean URL generated") =>
               (SingleClean.success /\ resultUrl = SingleClean.url)
        /\ StartsWith(message.text, "Deep link generated") =>
               (SingleDeepLink.success /\ resultUrl = SingleDeepLink.url)
        /\ StartsWith(message.text, "URL cleaning failed: ") =>
               (~SingleClean.success
                /\ message.text = "URL cleaning failed: " \o SingleClean.error)
        /\ StartsWith(message.text, "Deep link generation failed: ") =>
               (~SingleDeepLink.success
                /\ message.text = "Deep link generation failed: " \o SingleDeepLink.error)

\* A deep link for the default role is shown after an earlier click copied
\* the clean URL; the session still carries the role of the page.
C28_Witness ==
    /\ listeners
    /\ StartsWith(message.text, "Deep link generated")
    /\ RoleNameOf(resultUrl) = "ViewOnlyAccess"
    /\ currentSessionInfo.roleName = Str("PlatformAccess")
    /\ clipboard = SingleClean.url

(***************************************************************************)
(* The popup and the options page on empty storage                         *)
(***************************************************************************)
\* C30: the popup and the options page agree on the effective configuration
\* when nothing is stored: the config loadConfiguration builds for empty
\* storage equals the options page's DEFAULT_CONFIG field by field
\* (autoClosePopup false included), so the popup schedules its closing after
\* a copy only when the stored autoClosePopup is true.
C30_PopupAgreesWithOptionsDefaults ==
    /\ (PopupInitialized /\ popupStored = EmptyStorage /\ popupConfig # Null) =>
           popupConfig = DEFAULT_CONFIG
    /\ closeScheduled => (popupStored.t = "obj" /\ popupStored.autoClosePopup = Bool(TRUE))

====
